---- MODULE Spec2Model ----
(***************************************************************************)
(* A model of rust-vobject's content-line parser and serializer.           *)
(*                                                                         *)
(* Strings are sequences of UTF-8 bytes (0..255); a char is its Unicode    *)
(* code point.  Parser positions are 0-based byte offsets as in the Rust   *)
(* code, so the byte at offset i of s is s[i+1].                           *)
(***************************************************************************)
EXTENDS Integers, Sequences, FiniteSets, TLC

VARIABLES
    input,      \* Parser.input: the text being parsed
    pos,        \* Parser.pos: byte offset of the cursor
    stack,      \* active consume_component calls, innermost last
    pc,         \* where the program is
    rv,         \* value returned by the outermost consume_component; for one
                \* content line, consume_property's result without the fold
    result,     \* value returned by parse_component
    round,      \* 1: parsing the caller's text, 2: parsing write_component's output
    tree1,      \* the tree of the first parse, kept for the round trip
    trace,      \* history: the properties the component loop has committed
    arg,        \* argument of the function under study, or the pieces of
                \* the content line
    out         \* its result, or the result of consume_property_group, or
                \* the result of parse_component before blank lines were put
                \* in, or the characters consume_char has returned, or the
                \* name of the cursor operation called last

vars == <<input, pos, stack, pc, rv, result, round, tree1, trace, arg, out>>

----------------------------------------------------------------------------
(* Characters the code names.                                              *)
CR == 13
LF == 10
SP == 32
TAB == 9
COLON == 58
SEMICOLON == 59
DOT == 46
EQUALS == 61
DQUOTE == 34
HYPHEN == 45
COMMA == 44
BACKSLASH == 92
DEL == 127
UNITSEP == 31
BEGIN == <<66, 69, 71, 73, 78>>
END == <<69, 78, 68>>

----------------------------------------------------------------------------
(* UTF-8: str slicing, chars().next(), char::len_utf8, String::push.       *)

\* str::is_char_boundary(i)
is_char_boundary(s, i) ==
    \/ i = 0
    \/ i = Len(s)
    \/ i > 0 /\ i < Len(s) /\ ~(s[i + 1] \in 128..191)

\* &s[a..b]
Slice(s, a, b) == SubSeq(s, a + 1, b)

\* &s[a..]
SliceFrom(s, a) == SubSeq(s, a + 1, Len(s))

\* char::len_utf8
len_utf8(c) == IF c < 128 THEN 1 ELSE IF c < 2048 THEN 2 ELSE IF c < 65536 THEN 3 ELSE 4

\* s[i..].chars().next() for i < len(s) on a char boundary: the code point
CharAt(s, i) ==
    LET b == s[i + 1] IN
    IF b < 128 THEN b
    ELSE IF b < 224 THEN (b - 192) * 64 + (s[i + 2] - 128)
    ELSE IF b < 240 THEN (b - 224) * 4096 + (s[i + 2] - 128) * 64 + (s[i + 3] - 128)
    ELSE (b - 240) * 262144 + (s[i + 2] - 128) * 4096
             + (s[i + 3] - 128) * 64 + (s[i + 4] - 128)

\* String::push(c): the UTF-8 encoding of a code point
EncodeChar(c) ==
    IF c < 128 THEN <<c>>
    ELSE IF c < 2048 THEN <<192 + (c \div 64), 128 + (c % 64)>>
    ELSE IF c < 65536 THEN
        <<224 + (c \div 4096), 128 + ((c \div 64) % 64), 128 + (c % 64)>>
    ELSE <<240 + (c \div 262144), 128 + ((c \div 4096) % 64),
           128 + ((c \div 64) % 64), 128 + (c % 64)>>

\* The non-ASCII code points of the model's alphabet that Unicode classes as
\* Alphabetic or Numeric (U+00E9, U+6BCE); U+00A7 is in the alphabet and is not.
UnicodeAlphanumeric == {233, 27598}

\* char::is_alphanumeric
is_alphanumeric(c) ==
    \/ c \in 48..57
    \/ c \in 65..90
    \/ c \in 97..122
    \/ c \in UnicodeAlphanumeric

----------------------------------------------------------------------------
(* The line-unfolding cursor (Parser).                                     *)

None == [kind |-> "none", c |-> 0, offset |-> 0]
Some(ch, off) == [kind |-> "some", c |-> ch, offset |-> off]
\* a slice taken off a char boundary or past the end panics
Panic == [kind |-> "panic", c |-> 0, offset |-> 0]

\* let x = v; F(x): v is evaluated once and F applied to its value
Bind(v, F(_)) == CHOOSE r \in {F(x) : x \in {v}} : TRUE

RECURSIVE peek_at(_, _, _)
\* Faulty variant: only LF SPACE is taken as a fold, LF TAB is not.
peek_at_SpaceOnly(s, p, at) ==
    IF ~is_char_boundary(s, p + at) THEN Panic
    ELSE IF p + at = Len(s) THEN None
    ELSE Bind(CharAt(s, p + at), LAMBDA x :
        IF x = CR THEN peek_at(s, p, at + 1)
        ELSE IF x = LF THEN
            Bind(peek_at(s, p, at + 1), LAMBDA n :
                IF n.kind = "panic" THEN Panic
                ELSE IF n.kind = "some" /\ n.c = SP
                THEN peek_at(s, p, n.offset)
                ELSE Some(LF, at + 1))
        ELSE Some(x, at + len_utf8(x)))

\* Faulty variant: after a fold every SPACE and TAB that follows is dropped.
peek_at_DropsAllWhitespace(s, p, at) ==
    IF ~is_char_boundary(s, p + at) THEN Panic
    ELSE IF p + at = Len(s) THEN None
    ELSE Bind(CharAt(s, p + at), LAMBDA x :
        IF x = CR THEN peek_at(s, p, at + 1)
        ELSE IF x = LF THEN
            Bind(peek_at(s, p, at + 1), LAMBDA n :
                IF n.kind = "panic" THEN Panic
                ELSE IF n.kind = "some" /\ n.c \in {SP, TAB}
                THEN Bind(peek_at(s, p, n.offset), LAMBDA m :
                        IF m.kind = "some" /\ m.c \in {SP, TAB}
                        THEN peek_at(s, p, m.offset) ELSE m)
                ELSE Some(LF, at + 1))
        ELSE Some(x, at + len_utf8(x)))

\* Faulty variant: every character is taken to be one byte wide.
peek_at_ByteWidth(s, p, at) ==
    IF ~is_char_boundary(s, p + at) THEN Panic
    ELSE IF p + at = Len(s) THEN None
    ELSE Bind(CharAt(s, p + at), LAMBDA x :
        IF x = CR THEN peek_at(s, p, at + 1)
        ELSE IF x = LF THEN
            Bind(peek_at(s, p, at + 1), LAMBDA n :
                IF n.kind = "panic" THEN Panic
                ELSE IF n.kind = "some" /\ n.c \in {SP, TAB}
                THEN peek_at(s, p, n.offset)
                ELSE Some(LF, at + 1))
        ELSE Some(x, at + 1))

\* Faulty variant: a CR that no LF follows is returned as a character.
peek_at_LoneCR(s, p, at) ==
    IF ~is_char_boundary(s, p + at) THEN Panic
    ELSE IF p + at = Len(s) THEN None
    ELSE Bind(CharAt(s, p + at), LAMBDA x :
        IF x = CR THEN
            IF p + at + 1 < Len(s) /\ s[p + at + 2] = LF
            THEN peek_at(s, p, at + 1)
            ELSE Some(CR, at + 1)
        ELSE IF x = LF THEN
            Bind(peek_at(s, p, at + 1), LAMBDA n :
                IF n.kind = "panic" THEN Panic
                ELSE IF n.kind = "some" /\ n.c \in {SP, TAB}
                THEN peek_at(s, p, n.offset)
                ELSE Some(LF, at + 1))
        ELSE Some(x, at + len_utf8(x)))

peek_at(s, p, at) ==
    IF ~is_char_boundary(s, p + at) THEN Panic
    ELSE IF p + at = Len(s) THEN None
    ELSE Bind(CharAt(s, p + at), LAMBDA x :
        IF x = CR THEN peek_at(s, p, at + 1)
        ELSE IF x = LF THEN
            Bind(peek_at(s, p, at + 1), LAMBDA n :
                IF n.kind = "panic" THEN Panic
                ELSE IF n.kind = "some" /\ n.c \in {SP, TAB}
                THEN peek_at(s, p, n.offset)
                ELSE Some(LF, at + 1))
        ELSE Some(x, at + len_utf8(x)))

peek(s, p) == peek_at(s, p, 0)

eof(s, p) == p >= Len(s)

\* Results of the parser's methods: the value, the cursor afterwards, and
\* for Err the message (a record naming the format string and its arguments).
Ok(v, p) == [ok |-> TRUE, v |-> v, pos |-> p]
Err(e, p) == [ok |-> FALSE, v |-> e, pos |-> p]

ExpectedFoundEOL(c) == [msg |-> "Expected {}, found EOL", a |-> <<c>>, b |-> <<>>]
ExpectedFound(c, real_c) == [msg |-> "Expected {}, found {}", a |-> <<c>>, b |-> <<real_c>>]
ExpectedEOL == [msg |-> "Expected EOL.", a |-> <<>>, b |-> <<>>]
NoPropertyName == [msg |-> "No property name found.", a |-> <<>>, b |-> <<>>]
NoParamName(e) == [msg |-> "No param name found: {}", a |-> <<e.msg>>, b |-> <<>>]
ExpectedBegin == [msg |-> "Expected BEGIN tag.", a |-> <<>>, b |-> <<>>]
MismatchedTags(name, value) ==
    [msg |-> "Mismatched tags: BEGIN:{} vs END:{}", a |-> name, b |-> value]
TrailingData(rest) == [msg |-> "Trailing data: {}", a |-> rest, b |-> <<>>]

assert_char(s, p, c) ==
    Bind(peek(s, p), LAMBDA pk :
        IF pk.kind # "some" THEN Err(ExpectedFoundEOL(c), p)
        ELSE IF pk.c # c THEN Err(ExpectedFound(c, pk.c), p)
        ELSE Ok(TRUE, p))

\* Option<char> and the cursor afterwards
consume_char(s, p) ==
    Bind(peek(s, p), LAMBDA pk :
        IF pk.kind = "some" THEN [some |-> TRUE, c |-> pk.c, pos |-> p + pk.offset]
        ELSE [some |-> FALSE, c |-> 0, pos |-> p])

\* Faulty variant: the cursor advances by the width of the character alone.
consume_only_char_OwnWidth(s, p, c) ==
    Bind(peek(s, p), LAMBDA pk :
        IF pk.kind = "some" /\ pk.c = c THEN [b |-> TRUE, pos |-> p + len_utf8(c)]
        ELSE [b |-> FALSE, pos |-> p])

\* bool and the cursor afterwards
consume_only_char(s, p, c) ==
    Bind(peek(s, p), LAMBDA pk :
        IF pk.kind = "some" /\ pk.c = c THEN [b |-> TRUE, pos |-> p + pk.offset]
        ELSE [b |-> FALSE, pos |-> p])

consume_eol(s, start_pos) ==
    Bind(consume_char(s, start_pos), LAMBDA c1 :
        IF c1.some /\ c1.c = LF THEN Ok(TRUE, c1.pos)
        ELSE IF c1.some /\ c1.c = CR THEN
            Bind(consume_char(s, c1.pos), LAMBDA c2 :
                IF c2.some /\ c2.c = LF THEN Ok(TRUE, c2.pos)
                ELSE Err(ExpectedEOL, start_pos))
        ELSE Err(ExpectedEOL, start_pos))

RECURSIVE consume_eols(_, _)
\* while let Ok(_) = self.consume_eol() {}: the cursor afterwards
consume_eols(s, p) ==
    Bind(consume_eol(s, p), LAMBDA r :
        IF r.ok THEN consume_eols(s, r.pos) ELSE r.pos)

\* Faulty variant: only the end of the line itself is consumed.
sloppy_terminate_line_Once(s, p) ==
    IF ~eof(s, p) THEN consume_eol(s, p)
    ELSE Ok(TRUE, p)

sloppy_terminate_line(s, p) ==
    IF ~eof(s, p) THEN
        Bind(consume_eol(s, p), LAMBDA r :
            IF ~r.ok THEN r ELSE Ok(TRUE, consume_eols(s, r.pos)))
    ELSE Ok(TRUE, p)

\* The closures handed to consume_while.
qsafe(x) == x # DQUOTE /\ x # CR /\ x # LF /\ x # DEL /\ x > UNITSEP

Test(kind, x) ==
    CASE kind = "name" -> x = HYPHEN \/ is_alphanumeric(x)
      [] kind = "value" -> x # CR /\ x # LF
      [] kind = "quoted" -> qsafe(x)
      [] kind = "unquoted" -> qsafe(x) /\ x # SEMICOLON /\ x # COLON

\* Final flush
consume_while_flush(s, p, sl_start_pos, res) ==
    IF sl_start_pos < p THEN res \o Slice(s, sl_start_pos, p) ELSE res

\* the locals of consume_while after one iteration of its loop
Locals(break, p, sl_start_pos, res) ==
    [break |-> break, pos |-> p, sl_start_pos |-> sl_start_pos, res |-> res]

\* Faulty variant: after a skip the slice read so far is not flushed.
consume_while_iter_NoFlush(s, p, sl_start_pos, res, kind) ==
    IF eof(s, p) THEN Locals(TRUE, p, sl_start_pos, res)
    ELSE Bind(peek(s, p), LAMBDA pk :
        IF pk.kind # "some" \/ ~Test(kind, pk.c)
        THEN Locals(TRUE, p, sl_start_pos, res)
        ELSE IF pk.offset > len_utf8(pk.c)
        THEN Locals(FALSE, p + pk.offset, p + pk.offset, res \o EncodeChar(pk.c))
        ELSE Locals(FALSE, p + pk.offset, sl_start_pos, res))

\* one iteration of while !self.eof() { ... }
consume_while_iter(s, p, sl_start_pos, res, kind) ==
    IF eof(s, p) THEN Locals(TRUE, p, sl_start_pos, res)
    ELSE Bind(peek(s, p), LAMBDA pk :
        IF pk.kind # "some" \/ ~Test(kind, pk.c)
        THEN Locals(TRUE, p, sl_start_pos, res)
        ELSE IF pk.offset > len_utf8(pk.c)
        THEN Locals(FALSE, p + pk.offset, p + pk.offset,
                    res \o Slice(s, sl_start_pos, p) \o EncodeChar(pk.c))
        ELSE Locals(FALSE, p + pk.offset, sl_start_pos, res))

RECURSIVE consume_while_loop(_, _, _, _, _)
\* while !self.eof() { ... } with the locals sl_start_pos and res, and the
\* final flush
consume_while_loop(s, p, sl_start_pos, res, kind) ==
    Bind(consume_while_iter(s, p, sl_start_pos, res, kind), LAMBDA l :
        IF l.break THEN Ok(consume_while_flush(s, l.pos, l.sl_start_pos, l.res), l.pos)
        ELSE consume_while_loop(s, l.pos, l.sl_start_pos, l.res, kind))

consume_while(s, p, kind) == consume_while_loop(s, p, p, <<>>, kind)

----------------------------------------------------------------------------
(* The property parser.                                                    *)

\* Faulty variant: an empty name is returned as a name.
consume_property_name_AllowsEmpty(s, p) == consume_while(s, p, "name")

consume_property_name(s, p) ==
    Bind(consume_while(s, p, "name"), LAMBDA r :
        IF r.v = <<>> THEN Err(NoPropertyName, r.pos) ELSE r)

\* Faulty variant: the cursor is not set back when the attempt fails.
consume_property_group_NoRewind(s, start_pos) ==
    Bind(consume_property_name(s, start_pos), LAMBDA name :
        IF name.ok THEN
            Bind(assert_char(s, name.pos, DOT), LAMBDA dot :
                IF dot.ok THEN Ok(name.v, consume_char(s, name.pos).pos)
                ELSE Err(dot.v, name.pos))
        ELSE Err(name.v, name.pos))

consume_property_group(s, start_pos) ==
    Bind(consume_property_name(s, start_pos), LAMBDA name :
        IF name.ok THEN
            Bind(assert_char(s, name.pos, DOT), LAMBDA dot :
                IF dot.ok THEN Ok(name.v, consume_char(s, name.pos).pos)
                ELSE Err(dot.v, start_pos))
        ELSE Err(name.v, start_pos))

consume_property_value(s, p) ==
    Bind(consume_while(s, p, "value"), LAMBDA r :
        Bind(sloppy_terminate_line(s, r.pos), LAMBDA t :
            IF t.ok THEN Ok(r.v, t.pos) ELSE t))

consume_param_name(s, p) ==
    Bind(consume_property_name(s, p), LAMBDA r :
        IF r.ok THEN r ELSE Err(NoParamName(r.v), r.pos))

\* Faulty variant: a value whose quote is not closed is read as an unquoted
\* value.
consume_param_value_UnclosedAsUnquoted(s, p) ==
    Bind(consume_only_char(s, p, DQUOTE), LAMBDA q :
        IF q.b THEN
            Bind(consume_while(s, q.pos, "quoted"), LAMBDA r :
                Bind(assert_char(s, r.pos, DQUOTE), LAMBDA a :
                    IF a.ok THEN Ok(r.v, consume_char(s, r.pos).pos)
                    ELSE consume_while(s, q.pos, "unquoted")))
        ELSE consume_while(s, p, "unquoted"))

consume_param_value(s, p) ==
    Bind(consume_only_char(s, p, DQUOTE), LAMBDA q :
        IF q.b THEN
            Bind(consume_while(s, q.pos, "quoted"), LAMBDA r :
                Bind(assert_char(s, r.pos, DQUOTE), LAMBDA a :
                    IF a.ok THEN Ok(r.v, consume_char(s, r.pos).pos)
                    ELSE Err(a.v, r.pos)))
        ELSE consume_while(s, p, "unquoted"))

\* Faulty variant: a parameter without '=' gets its name as value.
consume_param_NameAsValue(s, p) ==
    Bind(consume_param_name(s, p), LAMBDA name :
        IF ~name.ok THEN name
        ELSE Bind(consume_only_char(s, name.pos, EQUALS), LAMBDA eq :
            IF eq.b THEN
                Bind(consume_param_value(s, eq.pos), LAMBDA value :
                    IF value.ok THEN Ok(<<name.v, value.v>>, value.pos)
                    ELSE Err(value.v, name.pos))
            ELSE Ok(<<name.v, name.v>>, eq.pos)))

\* Ok carries the pair (name, value)
consume_param(s, p) ==
    Bind(consume_param_name(s, p), LAMBDA name :
        IF ~name.ok THEN name
        ELSE Bind(consume_only_char(s, name.pos, EQUALS), LAMBDA eq :
            IF eq.b THEN
                Bind(consume_param_value(s, eq.pos), LAMBDA value :
                    IF value.ok THEN Ok(<<name.v, value.v>>, value.pos)
                    ELSE Err(value.v, name.pos))
            ELSE Ok(<<name.v, <<>>>>, eq.pos)))

\* Map::insert(k, v)
MapInsert(m, k, v) == [x \in DOMAIN m \cup {k} |-> IF x = k THEN v ELSE m[x]]

\* Map::new(): the function with the empty domain
EmptyMap == [x \in {} |-> <<>>]

RECURSIVE consume_params_loop(_, _, _)
\* while self.consume_only_char(';') { ... } with the local rv
consume_params_loop(s, p, rv_) ==
    Bind(consume_only_char(s, p, SEMICOLON), LAMBDA semi :
        IF ~semi.b THEN Ok(rv_, p)
        ELSE Bind(consume_param(s, semi.pos), LAMBDA r :
            IF r.ok
            THEN Bind(MapInsert(rv_, r.v[1], r.v[2]), LAMBDA inserted :
                    consume_params_loop(s, r.pos, inserted))
            ELSE Ok(rv_, r.pos)))

consume_params(s, p) == consume_params_loop(s, p, EmptyMap)

NoGroup == [some |-> FALSE, v |-> <<>>]
SomeGroup(g) == [some |-> TRUE, v |-> g]

Property(name, params, raw_value, prop_group) ==
    [name |-> name, params |-> params, raw_value |-> raw_value, prop_group |-> prop_group]

\* consume_property after its first line: group is the Result of
\* consume_property_group, whose cursor is where the name starts
consume_property_rest(s, group) ==
    Bind(consume_property_name(s, group.pos), LAMBDA name :
        IF ~name.ok THEN name
        ELSE Bind(consume_params(s, name.pos), LAMBDA params :
            Bind(assert_char(s, params.pos, COLON), LAMBDA colon :
                IF ~colon.ok THEN Err(colon.v, params.pos)
                ELSE Bind(consume_property_value(s, consume_char(s, params.pos).pos),
                          LAMBDA value :
                    IF ~value.ok THEN value
                    ELSE Ok(Property(name.v, params.v, value.v,
                                     IF group.ok THEN SomeGroup(group.v) ELSE NoGroup),
                            value.pos)))))

consume_property(s, p) ==
    Bind(consume_property_group(s, p), LAMBDA group : consume_property_rest(s, group))

----------------------------------------------------------------------------
(* Component and its property store.                                       *)

\* Component::new
NewComponent(name) == [name |-> name, props |-> EmptyMap, subcomponents |-> <<>>]

\* Faulty variant: the new property replaces the ones stored under its name.
push_Replace(c, prop) ==
    [c EXCEPT !.props = MapInsert(c.props, prop.name, <<prop>>)]

\* Faulty variant: the property is stored under its value.
push_UnderValue(c, prop) ==
    [c EXCEPT !.props = MapInsert(c.props, prop.raw_value,
        Append(IF prop.raw_value \in DOMAIN c.props THEN c.props[prop.raw_value] ELSE <<>>,
               prop))]

\* Component::push: entry(name).or_insert_with(Vec::new).push(prop)
push(c, prop) ==
    LET old == IF prop.name \in DOMAIN c.props THEN c.props[prop.name] ELSE <<>>
    IN [c EXCEPT !.props = MapInsert(c.props, prop.name, Append(old, prop))]

\* Faulty variant: set appends like push.
set_Appends(c, prop) ==
    [c EXCEPT !.props = MapInsert(c.props, prop.name, Append(IF prop.name \in DOMAIN c.props THEN c.props[prop.name] ELSE <<>>, prop))]

\* Component::set: insert(name, vec![prop])
set(c, prop) ==
    [c EXCEPT !.props = MapInsert(c.props, prop.name, <<prop>>)]

\* Component::get_only: Option<&Property> as a sequence of length 0 or 1
get_only(c, name) ==
    IF name \in DOMAIN c.props /\ Len(c.props[name]) = 1
    THEN <<c.props[name][1]>> ELSE <<>>

\* Component::get_all
get_all(c, name) ==
    IF name \in DOMAIN c.props THEN c.props[name] ELSE <<>>

\* what pop and remove return, and self afterwards; an Option is a sequence
\* of length 0 or 1
Returned(ret, c) == [ret |-> ret, c |-> c]

\* Faulty variant: the first property of the name is taken.
pop_First(c, name) ==
    IF name \in DOMAIN c.props /\ c.props[name] # <<>>
    THEN Returned(<<Head(c.props[name])>>, [c EXCEPT !.props[name] = Tail(@)])
    ELSE Returned(<<>>, c)

\* Component::pop: get_mut(name) and Vec::pop
pop(c, name) ==
    IF name \in DOMAIN c.props
    THEN IF c.props[name] # <<>>
         THEN Returned(<<c.props[name][Len(c.props[name])]>>,
                       [c EXCEPT !.props[name] = SubSeq(@, 1, Len(@) - 1)])
         ELSE Returned(<<>>, c)
    ELSE Returned(<<>>, c)

\* Faulty variant: the properties are returned and stay in the map.
remove_Keeps(c, name) ==
    IF name \in DOMAIN c.props THEN Returned(<<c.props[name]>>, c)
    ELSE Returned(<<>>, c)

\* Component::remove: HashMap::remove
remove(c, name) ==
    IF name \in DOMAIN c.props
    THEN Returned(<<c.props[name]>>,
                  [c EXCEPT !.props = [k \in (DOMAIN c.props) \ {name} |-> c.props[k]]])
    ELSE Returned(<<>>, c)

----------------------------------------------------------------------------
(* Serialization.                                                          *)

limit == 75

RECURSIVE char_boundary_back(_, _)
\* Faulty variant: the cut is made at next_pos wherever it falls.
char_boundary_back_Stay(line, next_pos) == next_pos

\* while line.is_char_boundary(next_pos) == false { next_pos -= 1; }
char_boundary_back(line, next_pos) ==
    IF is_char_boundary(line, next_pos) THEN next_pos
    ELSE char_boundary_back(line, next_pos - 1)

RECURSIVE fold_line_loop(_, _, _, _, _)
\* while bytes_remaining > limit { ... } with the locals pos, next_pos,
\* bytes_remaining and ret, and the push_str after the loop
fold_line_loop(line, p, next_pos, bytes_remaining, ret) ==
    IF bytes_remaining > limit THEN
        Bind(char_boundary_back(line, next_pos), LAMBDA np :
            Bind(ret \o Slice(line, p, np) \o <<CR, LF, SP>>, LAMBDA pushed :
                fold_line_loop(line, np, np + limit, bytes_remaining - (np - p), pushed)))
    ELSE ret \o SliceFrom(line, Len(line) - bytes_remaining)

fold_line(line) == fold_line_loop(line, 0, limit, Len(line), <<>>)

RECURSIVE Concat(_)
\* the concatenation of a sequence of strings
Concat(ss) == IF ss = <<>> THEN <<>> ELSE Head(ss) \o Concat(Tail(ss))

RECURSIVE ConcatChoices(_)
\* every concatenation that takes one string from each set of a sequence of sets
ConcatChoices(ss) ==
    IF ss = <<>> THEN {<<>>}
    ELSE {h \o t : h \in Head(ss), t \in ConcatChoices(Tail(ss))}

\* the orders in which a HashMap may iterate over the keys S
IterationOrders(S) ==
    {o \in [1..Cardinality(S) -> S] : \A i, j \in 1..Cardinality(S) : o[i] = o[j] => i = j}

\* One property line of write_component, its parameters visited in order o.
write_property(prop_name, prop, o) ==
    (IF prop.prop_group.some THEN prop.prop_group.v \o <<DOT>> ELSE <<>>)
    \o prop_name
    \o Concat([i \in 1..Len(o) |-> <<SEMICOLON>> \o o[i] \o <<EQUALS>> \o prop.params[o[i]]])
    \o <<COLON>> \o fold_line(prop.raw_value) \o <<CR, LF>>

\* Faulty variant: the properties of a name are written last to first.
write_props_of_Reversed(c, prop_name) ==
    ConcatChoices([i \in 1..Len(c.props[prop_name]) |->
        {write_property(prop_name, c.props[prop_name][Len(c.props[prop_name]) + 1 - i], o) :
            o \in IterationOrders(DOMAIN c.props[prop_name][Len(c.props[prop_name]) + 1 - i].params)}])

\* The lines of the properties stored under one key, for every parameter order.
write_props_of(c, prop_name) ==
    ConcatChoices([i \in 1..Len(c.props[prop_name]) |->
        {write_property(prop_name, c.props[prop_name][i], o) :
            o \in IterationOrders(DOMAIN c.props[prop_name][i].params)}])

\* for (prop_name, props) in &c.props: for every iteration order of the map
write_props(c) ==
    UNION {ConcatChoices([i \in 1..Len(o) |-> write_props_of(c, o[i])]) :
            o \in IterationOrders(DOMAIN c.props)}

RECURSIVE write_component(_)
\* The texts write_component may return: one per iteration order of the maps.
write_component(c) ==
    {<<66, 69, 71, 73, 78, 58>> \o c.name \o <<CR, LF>>
        \o p \o subs
        \o <<69, 78, 68, 58>> \o c.name \o <<CR, LF>> :
     p \in write_props(c),
     subs \in ConcatChoices([i \in 1..Len(c.subcomponents) |->
                              write_component(c.subcomponents[i])])}

----------------------------------------------------------------------------
(* Property values: Property::new, value_as_string and the escaping.       *)

RECURSIVE replace_from(_, _, _, _, _)
\* str::replace from byte offset i on: the matches of from are found from
\* left to right and do not overlap; ret is the text built so far
replace_from(s, i, from, to, ret) ==
    IF i >= Len(s) THEN ret
    ELSE IF i + Len(from) <= Len(s) /\ Slice(s, i, i + Len(from)) = from
    THEN Bind(ret \o to, LAMBDA r : replace_from(s, i + Len(from), from, to, r))
    ELSE Bind(Append(ret, s[i + 1]), LAMBDA r : replace_from(s, i + 1, from, to, r))

\* str::replace
replace(s, from, to) == Bind(s, LAMBDA t : replace_from(t, 0, from, to, <<>>))

\* 'N' and 'n'
UpperN == 78
LowerN == 110

escape_chars(s) ==
    replace(replace(replace(replace(replace(replace(s,
        <<BACKSLASH, UpperN>>, <<LF>>),
        <<BACKSLASH>>, <<BACKSLASH, BACKSLASH>>),
        <<SEMICOLON>>, <<BACKSLASH, SEMICOLON>>),
        <<COMMA>>, <<BACKSLASH, COMMA>>),
        <<CR, LF>>, <<BACKSLASH, LowerN>>),
        <<LF>>, <<BACKSLASH, LowerN>>)

unescape_chars(s) ==
    replace(replace(replace(replace(replace(replace(s,
        <<BACKSLASH, UpperN>>, <<BACKSLASH, LowerN>>),
        <<CR, LF>>, <<LF>>),
        <<BACKSLASH, LowerN>>, <<LF>>),
        <<BACKSLASH, COMMA>>, <<COMMA>>),
        <<BACKSLASH, SEMICOLON>>, <<SEMICOLON>>),
        <<BACKSLASH, BACKSLASH>>, <<BACKSLASH>>)

\* Property::new
PropertyNew(name, value) == Property(name, EmptyMap, escape_chars(value), NoGroup)

value_as_string(prop) == unescape_chars(prop.raw_value)

----------------------------------------------------------------------------
(* The texts handed to parse_component.                                    *)

MaxLines == 4
MaxProps == 2

\* the sequences over S of length at most n
SeqsUpTo(S, n) == UNION {[1..k -> S] : k \in 0..n}

\* "BEGIN:a\n", "BEGIN:b\n"
BeginLines ==
    {<<66, 69, 71, 73, 78, 58, 97, 10>>,
     <<66, 69, 71, 73, 78, 58, 98, 10>>}

\* BeginLines and "END:a\n", "END:b\n", "T:1\n", "T:2\n", "N:1\n"
NestLines ==
    {<<66, 69, 71, 73, 78, 58, 97, 10>>,
     <<66, 69, 71, 73, 78, 58, 98, 10>>,
     <<69, 78, 68, 58, 97, 10>>,
     <<69, 78, 68, 58, 98, 10>>,
     <<84, 58, 49, 10>>,
     <<84, 58, 50, 10>>,
     <<78, 58, 49, 10>>}

\* "g.T;W:1\r\n", "T;P=\"x:y\":v\n", "N;P=x;W:2\n\n", "T:1\r\n 2\n",
\* "T\n\t\u{e9}:\u{a7}\n", "T;P=\"x:v\n", ":1\n", "T:\n"
RichLines ==
    {<<103, 46, 84, 59, 87, 58, 49, 13, 10>>,
     <<84, 59, 80, 61, 34, 120, 58, 121, 34, 58, 118, 10>>,
     <<78, 59, 80, 61, 120, 59, 87, 58, 50, 10, 10>>,
     <<84, 58, 49, 13, 10, 32, 50, 10>>,
     <<84, 10, 9, 195, 169, 58, 194, 167, 10>>,
     <<84, 59, 80, 61, 34, 120, 58, 118, 10>>,
     <<58, 49, 10>>,
     <<84, 58, 10>>}

\* "BEGIN:a\n", "BEGIN:a\r\n\r\n", "T:1\n"
Heads ==
    {<<66, 69, 71, 73, 78, 58, 97, 10>>,
     <<66, 69, 71, 73, 78, 58, 97, 13, 10, 13, 10>>,
     <<84, 58, 49, 10>>}

\* "END:a", "END:a\n\r\n\n", "END:a\nT:1\n", "END:a\n\r", "END:b\n", ""
Tails ==
    {<<69, 78, 68, 58, 97>>,
     <<69, 78, 68, 58, 97, 10, 13, 10, 10>>,
     <<69, 78, 68, 58, 97, 10, 84, 58, 49, 10>>,
     <<69, 78, 68, 58, 97, 10, 13>>,
     <<69, 78, 68, 58, 98, 10>>,
     <<>>}

\* the text of the test mismatched_begin_end_tags_returns_error:
\* "BEGIN:a\nBEGIN:b\nEND:a"
MismatchedNesting == <<66, 69, 71, 73, 78, 58, 97, 10, 66, 69, 71, 73, 78, 58, 98, 10, 69, 78, 68, 58, 97>>

Inputs ==
    {MismatchedNesting}
    \cup {Concat(<<b>> \o ls) : b \in BeginLines, ls \in SeqsUpTo(NestLines, MaxLines)}
    \cup {h \o Concat(ls) \o t : h \in Heads, ls \in SeqsUpTo(RichLines, MaxProps), t \in Tails}

\* The texts of the runs checked for termination.
MaxNest == 3
MaxRich == 1

ParseInputs ==
    {MismatchedNesting}
    \cup {Concat(<<b>> \o ls) : b \in BeginLines, ls \in SeqsUpTo(NestLines, MaxNest)}
    \cup {h \o Concat(ls) \o t : h \in Heads, ls \in SeqsUpTo(RichLines, MaxRich), t \in Tails}

----------------------------------------------------------------------------
(* parse_component and consume_component as a state machine: one step per  *)
(* property the component loop reads; the recursion is the explicit stack. *)

ROk(v) == [ok |-> TRUE, v |-> v]
RErr(e) == [ok |-> FALSE, v |-> e]
NotReturned == RErr([msg |-> "", a |-> <<>>, b |-> <<>>])

\* a frame of consume_component: its locals start_pos and component
Frame(start_pos, component) == [start_pos |-> start_pos, component |-> component]

Top == stack[Len(stack)]

\* one entry of the history: a property the loop read, and the nesting depth
Event(depth, property) == [depth |-> depth, property |-> property]

Init ==
    /\ input \in Inputs
    /\ pos = 0
    /\ stack = <<>>
    /\ pc = "consume_component"
    /\ rv = NotReturned
    /\ result = NotReturned
    /\ round = 1
    /\ tree1 = NewComponent(<<>>)
    /\ trace = <<>>
    /\ arg = <<>>
    /\ out = <<>>

\* try!: the error leaves every active consume_component call
Propagate(e, p) ==
    /\ pos' = p
    /\ stack' = <<>>
    /\ rv' = RErr(e)
    /\ pc' = "returned"
    /\ UNCHANGED <<input, result, round, tree1, trace, arg, out>>

\* let mut property = try!(self.consume_property());   (the Err case)
ConsumeComponentFail(property) ==
    /\ ~property.ok
    /\ Propagate(property.v, property.pos)

\* Faulty variant: the cursor stays behind the property that was read.
ConsumeComponentNotBegin_KeepsCursor(start_pos, property) ==
    /\ property.ok
    /\ property.v.name # BEGIN
    /\ Propagate(ExpectedBegin, property.pos)

\* if property.name != "BEGIN" { self.pos = start_pos; return Err(..) }
ConsumeComponentNotBegin(start_pos, property) ==
    /\ property.ok
    /\ property.v.name # BEGIN
    /\ Propagate(ExpectedBegin, start_pos)

\* let mut component = Component::new(property.raw_value);
ConsumeComponentBegin(start_pos, property) ==
    /\ property.ok
    /\ property.v.name = BEGIN
    /\ pos' = property.pos
    /\ stack' = Append(stack, Frame(start_pos, NewComponent(property.v.raw_value)))
    /\ trace' = Append(trace, Event(Len(stack) + 1, property.v))
    /\ pc' = "loop"
    /\ UNCHANGED <<input, rv, result, round, tree1, arg, out>>

\* consume_component up to its loop
ConsumeComponent ==
    /\ pc = "consume_component"
    /\ \E property \in {consume_property(input, pos)} :
        \/ ConsumeComponentFail(property)
        \/ ConsumeComponentNotBegin(pos, property)
        \/ ConsumeComponentBegin(pos, property)

\* property = try!(self.consume_property());   (the Err case)
LoopFail(property) ==
    /\ ~property.ok
    /\ Propagate(property.v, property.pos)

\* Faulty variant: the cursor is set back before the nested BEGIN and the
\* loop goes on without the recursive call.
LoopBegin_NoRecursion(previous_pos, property) ==
    /\ property.ok
    /\ property.v.name = BEGIN
    /\ pos' = previous_pos
    /\ pc' = "loop"
    /\ UNCHANGED <<input, stack, rv, result, round, tree1, trace, arg, out>>

\* if property.name == "BEGIN" { self.pos = previous_pos; ... self.consume_component() }
LoopBegin(previous_pos, property) ==
    /\ property.ok
    /\ property.v.name = BEGIN
    /\ pos' = previous_pos
    /\ pc' = "consume_component"
    /\ UNCHANGED <<input, stack, rv, result, round, tree1, trace, arg, out>>

\* Faulty variant: the cursor is set back to where the outermost call started.
LoopEndMismatch_OutermostStart(property) ==
    /\ property.ok
    /\ property.v.name = END
    /\ property.v.raw_value # Top.component.name
    /\ Propagate(MismatchedTags(Top.component.name, property.v.raw_value),
                 stack[1].start_pos)

\* else if property.name == "END" { if property.raw_value != component.name { ... } }
LoopEndMismatch(property) ==
    /\ property.ok
    /\ property.v.name = END
    /\ property.v.raw_value # Top.component.name
    /\ Propagate(MismatchedTags(Top.component.name, property.v.raw_value),
                 Top.start_pos)

\* Ok(component) reaches the caller: the outermost call returns it, a nested
\* call's caller pushes it to its subcomponents and goes on with its loop
Return(component, callers) ==
    IF callers = <<>>
    THEN /\ stack' = <<>>
         /\ rv' = ROk(component)
         /\ pc' = "returned"
    ELSE /\ stack' = [callers EXCEPT ![Len(callers)].component.subcomponents =
                         Append(@, component)]
         /\ rv' = rv
         /\ pc' = "loop"

\* Faulty variant: any END line closes the component.
LoopEnd_AnyValue(property) ==
    /\ property.ok
    /\ property.v.name = END
    /\ pos' = property.pos
    /\ trace' = Append(trace, Event(Len(stack), property.v))
    /\ Return(Top.component, SubSeq(stack, 1, Len(stack) - 1))
    /\ UNCHANGED <<input, result, round, tree1, arg, out>>

\* else if property.name == "END" { ... break; }  Ok(component)
LoopEnd(property) ==
    /\ property.ok
    /\ property.v.name = END
    /\ property.v.raw_value = Top.component.name
    /\ pos' = property.pos
    /\ trace' = Append(trace, Event(Len(stack), property.v))
    /\ Return(Top.component, SubSeq(stack, 1, Len(stack) - 1))
    /\ UNCHANGED <<input, result, round, tree1, arg, out>>

\* Faulty variant: the property goes to the outermost component.
LoopPush_Outermost(property) ==
    /\ property.ok
    /\ property.v.name # BEGIN
    /\ property.v.name # END
    /\ pos' = property.pos
    /\ stack' = [stack EXCEPT ![1].component = push(@, property.v)]
    /\ trace' = Append(trace, Event(Len(stack), property.v))
    /\ pc' = "loop"
    /\ UNCHANGED <<input, rv, result, round, tree1, arg, out>>

\* else { component.push(property); }
LoopPush(property) ==
    /\ property.ok
    /\ property.v.name # BEGIN
    /\ property.v.name # END
    /\ pos' = property.pos
    /\ stack' = [stack EXCEPT ![Len(stack)].component = push(@, property.v)]
    /\ trace' = Append(trace, Event(Len(stack), property.v))
    /\ pc' = "loop"
    /\ UNCHANGED <<input, rv, result, round, tree1, arg, out>>

\* one iteration of the loop of consume_component
Loop ==
    /\ pc = "loop"
    /\ \E property \in {consume_property(input, pos)} :
        \/ LoopFail(property)
        \/ LoopBegin(pos, property)
        \/ LoopEndMismatch(property)
        \/ LoopEnd(property)
        \/ LoopPush(property)

\* let rv = try!(parser.consume_component());   (the Err case)
ParseComponentErr ==
    /\ pc = "returned"
    /\ ~rv.ok
    /\ result' = rv
    /\ pc' = "done"
    /\ UNCHANGED <<input, pos, stack, rv, round, tree1, trace, arg, out>>

\* Faulty variant: what is left of the input is ignored.
ParseComponentTrailing_ReturnsOk ==
    /\ pc = "returned"
    /\ rv.ok
    /\ ~eof(input, pos)
    /\ result' = rv
    /\ pc' = "done"
    /\ UNCHANGED <<input, pos, stack, rv, round, tree1, trace, arg, out>>

\* if !parser.eof() { Err("Trailing data: ...") }
ParseComponentTrailing ==
    /\ pc = "returned"
    /\ rv.ok
    /\ ~eof(input, pos)
    /\ result' = RErr(TrailingData(SliceFrom(input, pos)))
    /\ pc' = "done"
    /\ UNCHANGED <<input, pos, stack, rv, round, tree1, trace, arg, out>>

\* else { Ok(rv) }
ParseComponentOk ==
    /\ pc = "returned"
    /\ rv.ok
    /\ eof(input, pos)
    /\ result' = rv
    /\ pc' = "done"
    /\ UNCHANGED <<input, pos, stack, rv, round, tree1, trace, arg, out>>

\* The caller writes the parsed tree and parses the text again.
RoundTrip ==
    /\ pc = "done"
    /\ round = 1
    /\ result.ok
    /\ \E text \in write_component(result.v) :
        /\ input' = text
        /\ pos' = 0
        /\ stack' = <<>>
        /\ pc' = "consume_component"
        /\ rv' = NotReturned
        /\ result' = NotReturned
        /\ round' = 2
        /\ tree1' = result.v
        /\ trace' = <<>>
        /\ UNCHANGED <<arg, out>>

\* a step of parse_component
NextParse ==
    \/ ConsumeComponent
    \/ Loop
    \/ ParseComponentErr
    \/ ParseComponentTrailing
    \/ ParseComponentOk

Next ==
    \/ NextParse
    \/ RoundTrip

Spec == Init /\ [][Next]_vars

\* One call of parse_component.  The program is sequential: a step that can
\* be taken is taken.
InitParse ==
    /\ input \in ParseInputs
    /\ pos = 0
    /\ stack = <<>>
    /\ pc = "consume_component"
    /\ rv = NotReturned
    /\ result = NotReturned
    /\ round = 1
    /\ tree1 = NewComponent(<<>>)
    /\ trace = <<>>
    /\ arg = <<>>
    /\ out = <<>>

FairSpec == InitParse /\ [][NextParse]_vars /\ WF_vars(NextParse)

----------------------------------------------------------------------------
(* consume_property on one content line, and again on the same line with a *)
(* fold inserted between two of its characters.  arg holds the pieces the  *)
(* line is made of, rv the result for the line without the fold.           *)

\* no group, "foo"
LineGroups == {NoGroup, SomeGroup(<<102, 111, 111>>)}

\* "", "T", "EMAIL"
LineNames == {<<>>, <<84>>, <<69, 77, 65, 73, 76>>}

\* "", ";TYPE=INTERNET", ";W;P=\"x:\u{e9}\"" with the maps they stand for
LineParams ==
    {[text |-> <<>>, map |-> EmptyMap],
     [text |-> <<59, 84, 89, 80, 69, 61, 73, 78, 84, 69, 82, 78, 69, 84>>,
      map |-> MapInsert(EmptyMap, <<84, 89, 80, 69>>, <<73, 78, 84, 69, 82, 78, 69, 84>>)],
     [text |-> <<59, 87, 59, 80, 61, 34, 120, 58, 195, 169, 34>>,
      map |-> MapInsert(MapInsert(EmptyMap, <<87>>, <<>>), <<80>>, <<120, 58, 195, 169>>)]}

\* "", "foo@example.com", "\u{e9} 1"
LineValues ==
    {<<>>,
     <<102, 111, 111, 64, 101, 120, 97, 109, 112, 108, 101, 46, 99, 111, 109>>,
     <<195, 169, 32, 49>>}

\* end of input, "\r\n"
LineEols == {<<>>, <<CR, LF>>}

\* what precedes the line in the input: nothing, "X:1\n"
LinesBefore == {<<>>, <<88, 58, 49, 10>>}

\* LF or CRLF followed by one SPACE or TAB
Folds == {<<LF, SP>>, <<LF, TAB>>, <<CR, LF, SP>>, <<CR, LF, TAB>>}

\* the content line without its end of line
LineContent(a) ==
    (IF a.group.some THEN a.group.v \o <<DOT>> ELSE <<>>)
    \o a.name \o a.params.text \o <<COLON>> \o a.value

\* the byte offsets between two characters of the content line
FoldPlaces(a) ==
    {i \in 1..(Len(LineContent(a)) - 1) : is_char_boundary(LineContent(a), i)}

InitProperty ==
    /\ arg \in [group : LineGroups, name : LineNames, params : LineParams,
                value : LineValues, eol : LineEols, before : LinesBefore,
                fold : {<<>>}, at : {0}]
    /\ input = arg.before \o LineContent(arg) \o arg.eol
    /\ pos = Len(arg.before)
    /\ pc = "consume_property_group"
    /\ out = <<>>
    /\ rv = NotReturned
    /\ result = NotReturned
    /\ round = 1
    /\ stack = <<>>
    /\ tree1 = NewComponent(<<>>)
    /\ trace = <<>>

\* let group = self.consume_property_group().ok();
ConsumePropertyGroup ==
    /\ pc = "consume_property_group"
    /\ \E group \in {consume_property_group(input, pos)} :
        /\ out' = group
        /\ pos' = group.pos
    /\ pc' = "consume_property_rest"
    /\ UNCHANGED <<input, stack, rv, result, round, tree1, trace, arg>>

\* the rest of consume_property
ConsumePropertyRest ==
    /\ pc = "consume_property_rest"
    /\ \E r \in {consume_property_rest(input, out)} :
        /\ result' = [ok |-> r.ok, v |-> r.v]
        /\ pos' = r.pos
    /\ pc' = "property_done"
    /\ UNCHANGED <<input, stack, rv, round, tree1, trace, arg, out>>

\* The caller parses the line again with a fold inserted.
InsertFold ==
    /\ pc = "property_done"
    /\ round = 1
    /\ \E fold \in Folds, at \in FoldPlaces(arg) :
        /\ input' = arg.before \o Slice(LineContent(arg), 0, at) \o fold
                    \o SliceFrom(LineContent(arg), at) \o arg.eol
        /\ arg' = [arg EXCEPT !.fold = fold, !.at = at]
    /\ pos' = Len(arg.before)
    /\ rv' = result
    /\ result' = NotReturned
    /\ out' = <<>>
    /\ round' = 2
    /\ pc' = "consume_property_group"
    /\ UNCHANGED <<stack, tree1, trace>>

NextProperty ==
    \/ ConsumePropertyGroup
    \/ ConsumePropertyRest
    \/ InsertFold

SpecProperty == InitProperty /\ [][NextProperty]_vars

----------------------------------------------------------------------------
(* Property::new(name, s).value_as_string()                                *)

MaxEscapeLen == 3

\* backslash, 'N', 'n', ';', ',', CR, LF, 'a'
EscapeChars == {BACKSLASH, UpperN, LowerN, SEMICOLON, COMMA, CR, LF, 97}

InitEscape ==
    /\ arg \in SeqsUpTo(EscapeChars, MaxEscapeLen)
    /\ pc = "Property::new"
    /\ out = <<>>
    /\ result = NotReturned
    /\ input = <<>>
    /\ pos = 0
    /\ stack = <<>>
    /\ rv = NotReturned
    /\ round = 1
    /\ tree1 = NewComponent(<<>>)
    /\ trace = <<>>

\* let prop = Property::new("T", s);
NewProperty ==
    /\ pc = "Property::new"
    /\ out' = PropertyNew(<<84>>, arg)
    /\ pc' = "value_as_string"
    /\ UNCHANGED <<input, pos, stack, rv, result, round, tree1, trace, arg>>

\* prop.value_as_string()
ValueAsString ==
    /\ pc = "value_as_string"
    /\ result' = ROk(value_as_string(out))
    /\ pc' = "escape_done"
    /\ UNCHANGED <<input, pos, stack, rv, round, tree1, trace, arg, out>>

NextEscape ==
    \/ NewProperty
    \/ ValueAsString

SpecEscape == InitEscape /\ [][NextEscape]_vars

----------------------------------------------------------------------------
(* fold_line(s)                                                            *)

FoldSlack == 2
MaxWide == 2

\* n times the string w
RECURSIVE Repeat(_, _)
Repeat(w, n) == IF n = 0 THEN <<>> ELSE w \o Repeat(w, n - 1)

\* n times 'a'
Pad(n) == [i \in 1..n |-> 97]

\* characters of 2, 3 and 4 bytes: U+E9, U+6BCE, U+1F600
WideChars == {<<195, 169>>, <<230, 175, 142>>, <<240, 159, 152, 128>>}

\* at most MaxWide times the same wide character
WideRuns == {Repeat(w, k) : w \in WideChars, k \in 0..MaxWide}

\* the shape of the line of test_fold: 59 bytes of ASCII, 31 characters of 3 bytes
TestFoldLine == Pad(59) \o Repeat(<<230, 175, 142>>, 31)

\* SPACE and TAB where fold_line cuts
WhiteRuns == {<<SP>>, <<TAB>>, <<SP, SP>>, <<SP, TAB>>, <<TAB, SP>>}

\* Lines of up to three chunks whose wide characters lie around the places
\* where fold_line cuts, lines with SPACE or TAB there, and short lines.
FoldInputs ==
    {TestFoldLine}
    \cup {Pad(n) \o w \o Pad(1) : n \in (limit - FoldSlack)..limit, w \in WhiteRuns}
    \cup {Pad(n) \o w : n \in 0..FoldSlack, w \in WideRuns}
    \cup {Pad(n1) \o w1 \o Pad(n2) \o w2 \o Pad(n3) :
            n1 \in (limit - FoldSlack)..limit, w1 \in WideRuns,
            n2 \in (limit - 4 * MaxWide - FoldSlack)..limit, w2 \in WideRuns,
            n3 \in 0..1}

InitFold ==
    /\ arg \in FoldInputs
    /\ pc = "fold_line"
    /\ out = <<>>
    /\ result = NotReturned
    /\ input = <<>>
    /\ pos = 0
    /\ stack = <<>>
    /\ rv = NotReturned
    /\ round = 1
    /\ tree1 = NewComponent(<<>>)
    /\ trace = <<>>

FoldLine ==
    /\ pc = "fold_line"
    /\ out' = fold_line(arg)
    /\ pc' = "fold_done"
    /\ UNCHANGED <<input, pos, stack, rv, result, round, tree1, trace, arg>>

NextFold == FoldLine

SpecFold == InitFold /\ [][NextFold]_vars

----------------------------------------------------------------------------
(* fold_line(s) read back by the parser: consume_while up to the end of    *)
(* the logical line, one step per iteration of its loop.  stack holds the  *)
(* locals of consume_while.                                                *)

\* Lines of two or three chunks with SPACE, TAB or a wide character where
\* fold_line cuts, and short lines.
UnfoldInputs ==
    {TestFoldLine}
    \cup {Pad(n) : n \in 0..FoldSlack}
    \cup {Pad(n) \o w \o Pad(1) :
            n \in (limit - FoldSlack)..limit, w \in WhiteRuns \cup WideRuns}

InitUnfold ==
    /\ arg \in UnfoldInputs
    /\ pc = "fold_line"
    /\ out = <<>>
    /\ result = NotReturned
    /\ input = <<>>
    /\ pos = 0
    /\ stack = <<>>
    /\ rv = NotReturned
    /\ round = 1
    /\ tree1 = NewComponent(<<>>)
    /\ trace = <<>>

\* Parser::new(&folded); let mut sl_start_pos = self.pos; let mut res = String::new();
ConsumeWhileNew ==
    /\ pc = "fold_done"
    /\ input' = out
    /\ pos' = 0
    /\ stack' = <<Locals(FALSE, 0, 0, <<>>)>>
    /\ pc' = "consume_while"
    /\ UNCHANGED <<rv, result, round, tree1, trace, arg, out>>

\* one iteration of the loop of consume_while(|x| x != '\r' && x != '\n')
ConsumeWhileIter ==
    /\ pc = "consume_while"
    /\ ~Top.break
    /\ \E l \in {consume_while_iter(input, pos, Top.sl_start_pos, Top.res, "value")} :
        /\ stack' = <<l>>
        /\ pos' = l.pos
    /\ UNCHANGED <<input, pc, rv, result, round, tree1, trace, arg, out>>

\* the final flush and the return of consume_while
ConsumeWhileFlush ==
    /\ pc = "consume_while"
    /\ Top.break
    /\ result' = ROk(consume_while_flush(input, pos, Top.sl_start_pos, Top.res))
    /\ stack' = <<>>
    /\ pc' = "unfold_done"
    /\ UNCHANGED <<input, pos, rv, round, tree1, trace, arg, out>>

NextUnfold ==
    \/ FoldLine
    \/ ConsumeWhileNew
    \/ ConsumeWhileIter
    \/ ConsumeWhileFlush

SpecUnfold == InitUnfold /\ [][NextUnfold]_vars

----------------------------------------------------------------------------
(* write_component(c) on trees built with Component::new and push.         *)

MaxWriteProps == 3
MaxWriteSubs == 1

RECURSIVE PushAll(_, _)
\* c.push(ps[1]); c.push(ps[2]); ...
PushAll(c, ps) ==
    IF ps = <<>> THEN c
    ELSE Bind(push(c, Head(ps)), LAMBDA d : PushAll(d, Tail(ps)))

\* T:1, T:2, g.N;P=x;W=:v (the parameters in either order), L with a value of
\* 75 bytes, L with a value of 151 bytes whose second chunk starts with a SPACE
WriteProps ==
    {Property(<<84>>, EmptyMap, <<49>>, NoGroup),
     Property(<<84>>, EmptyMap, <<50>>, NoGroup),
     Property(<<78>>, MapInsert(MapInsert(EmptyMap, <<80>>, <<120>>), <<87>>, <<>>),
              <<118>>, SomeGroup(<<103>>)),
     Property(<<76>>, EmptyMap, Pad(limit), NoGroup),
     Property(<<76>>, EmptyMap, Pad(limit) \o <<SP>> \o Pad(limit), NoGroup)}

\* the components b, b with T:1, and c with the subcomponent b
WriteSubs ==
    {NewComponent(<<98>>),
     push(NewComponent(<<98>>), Property(<<84>>, EmptyMap, <<49>>, NoGroup)),
     [NewComponent(<<99>>) EXCEPT !.subcomponents = <<NewComponent(<<98>>)>>]}

\* the component a with up to MaxWriteProps properties pushed and up to
\* MaxWriteSubs subcomponents
WriteTrees ==
    {[PushAll(NewComponent(<<97>>), ps) EXCEPT !.subcomponents = subs] :
        ps \in SeqsUpTo(WriteProps, MaxWriteProps),
        subs \in SeqsUpTo(WriteSubs, MaxWriteSubs)}

InitWrite ==
    /\ arg \in WriteTrees
    /\ pc = "write_component"
    /\ out = <<>>
    /\ result = NotReturned
    /\ input = <<>>
    /\ pos = 0
    /\ stack = <<>>
    /\ rv = NotReturned
    /\ round = 1
    /\ tree1 = NewComponent(<<>>)
    /\ trace = <<>>

\* write_component(&c), for one iteration order of the maps
WriteComponent ==
    /\ pc = "write_component"
    /\ \E text \in write_component(arg) : out' = text
    /\ pc' = "written"
    /\ UNCHANGED <<input, pos, stack, rv, result, round, tree1, trace, arg>>

NextWrite == WriteComponent

SpecWrite == InitWrite /\ [][NextWrite]_vars

----------------------------------------------------------------------------
(* A Component under push, set, pop and remove.  out is the component,     *)
(* tree1 the component before the last call, trace the last call, result   *)
(* what it returned, round the number of calls so far, and arg the         *)
(* sequences a multimap would hold.                                        *)

MaxCalls == 3

\* T:1, T:2, N:1
StoreProps ==
    {Property(<<84>>, EmptyMap, <<49>>, NoGroup),
     Property(<<84>>, EmptyMap, <<50>>, NoGroup),
     Property(<<78>>, EmptyMap, <<49>>, NoGroup)}

\* T, N and X, a name no property has
StoreNames == {<<84>>, <<78>>, <<88>>}

Call(op, name) == [op |-> op, name |-> name]

InitStore ==
    /\ out = [NewComponent(<<97>>) EXCEPT !.subcomponents = <<NewComponent(<<98>>)>>]
    /\ tree1 = out
    /\ trace = Call("new", <<>>)
    /\ result = <<>>
    /\ round = 0
    /\ arg = [name \in StoreNames |-> <<>>]
    /\ pc = "store"
    /\ input = <<>>
    /\ pos = 0
    /\ stack = <<>>
    /\ rv = NotReturned

\* c.push(prop)
Push ==
    /\ pc = "store"
    /\ round < MaxCalls
    /\ \E prop \in StoreProps :
        /\ out' = push(out, prop)
        /\ trace' = Call("push", prop.name)
        /\ arg' = [arg EXCEPT ![prop.name] = Append(@, prop)]
    /\ tree1' = out
    /\ result' = <<>>
    /\ round' = round + 1
    /\ UNCHANGED <<input, pos, stack, pc, rv>>

\* c.set(prop)
Set ==
    /\ pc = "store"
    /\ round < MaxCalls
    /\ \E prop \in StoreProps :
        /\ out' = set(out, prop)
        /\ trace' = Call("set", prop.name)
        /\ arg' = [arg EXCEPT ![prop.name] = <<prop>>]
    /\ tree1' = out
    /\ result' = <<>>
    /\ round' = round + 1
    /\ UNCHANGED <<input, pos, stack, pc, rv>>

\* c.pop(name)
Pop ==
    /\ pc = "store"
    /\ round < MaxCalls
    /\ \E name \in StoreNames :
        /\ \E r \in {pop(out, name)} :
            /\ out' = r.c
            /\ result' = r.ret
        /\ trace' = Call("pop", name)
        /\ arg' = [arg EXCEPT ![name] = SubSeq(@, 1, Len(@) - 1)]
    /\ tree1' = out
    /\ round' = round + 1
    /\ UNCHANGED <<input, pos, stack, pc, rv>>

\* c.remove(name)
Remove ==
    /\ pc = "store"
    /\ round < MaxCalls
    /\ \E name \in StoreNames :
        /\ \E r \in {remove(out, name)} :
            /\ out' = r.c
            /\ result' = r.ret
        /\ trace' = Call("remove", name)
        /\ arg' = [arg EXCEPT ![name] = <<>>]
    /\ tree1' = out
    /\ round' = round + 1
    /\ UNCHANGED <<input, pos, stack, pc, rv>>

NextStore ==
    \/ Push
    \/ Set
    \/ Pop
    \/ Remove

SpecStore == InitStore /\ [][NextStore]_vars

----------------------------------------------------------------------------
(* consume_component and the end-of-input test of parse_component on a     *)
(* text given line by line, the cursor behind the lines the caller has     *)
(* read before; then the same on the text with a blank line put where a    *)
(* property ended.  arg holds the pieces of the text, out the result on    *)
(* the text without the blank line.                                        *)

MaxBody == 1

\* "BEGIN:a", "g.BEGIN:a", "begin:a", "BEGINS:a", "T:1", "END:a", ";"
FirstLines ==
    {<<66, 69, 71, 73, 78, 58, 97>>,
     <<103, 46, 66, 69, 71, 73, 78, 58, 97>>,
     <<98, 101, 103, 105, 110, 58, 97>>,
     <<66, 69, 71, 73, 78, 83, 58, 97>>,
     <<84, 58, 49>>,
     <<69, 78, 68, 58, 97>>,
     <<59>>}

\* "T:1"; "N:a" continued by " b"; "BEGIN:b" and "END:b"; "END:b"; "?"
BodyLines ==
    {<< <<84, 58, 49>> >>,
     << <<78, 58, 97>>, <<32, 98>> >>,
     << <<66, 69, 71, 73, 78, 58, 98>>, <<69, 78, 68, 58, 98>> >>,
     << <<69, 78, 68, 58, 98>> >>,
     << <<63>> >>}

\* "END:a"
LastLine == <<69, 78, 68, 58, 97>>

\* LF, CRLF
Eols == {<<LF>>, <<CR, LF>>}

\* what follows the last line: nothing, its end of line, a blank line too,
\* or the line "T:1"
Final(kind, eol) ==
    CASE kind = "none" -> <<>>
      [] kind = "eol" -> eol
      [] kind = "blank" -> eol \o eol
      [] kind = "trailing" -> eol \o <<84, 58, 49>> \o eol

\* the lines with the end of line between them
Join(lines, eol) ==
    Concat([i \in 1..Len(lines) |-> IF i < Len(lines) THEN lines[i] \o eol ELSE lines[i]])

LinesText(a) ==
    Join(<<a.first>> \o Concat(a.body) \o <<LastLine>>, a.eol) \o Final(a.final, a.eol)

\* LF, CRLF, LF CRLF
BlankLines == {<<LF>>, <<CR, LF>>, <<LF, CR, LF>>}

RECURSIVE PropertyEnds(_, _)
\* where the cursor is after each property that consume_property reads, one
\* after the other
PropertyEnds(s, p) ==
    Bind(consume_property(s, p), LAMBDA property :
        IF property.ok THEN {property.pos} \cup PropertyEnds(s, property.pos)
        ELSE {})

InitLines ==
    /\ arg \in [before : LinesBefore, first : FirstLines,
                body : SeqsUpTo(BodyLines, MaxBody), eol : Eols,
                final : {"none", "eol", "blank", "trailing"},
                blank : {<<>>}, at : {0}]
    /\ input = arg.before \o LinesText(arg)
    /\ pos = Len(arg.before)
    /\ stack = <<>>
    /\ pc = "consume_component"
    /\ rv = NotReturned
    /\ result = NotReturned
    /\ round = 1
    /\ tree1 = NewComponent(<<>>)
    /\ trace = <<>>
    /\ out = NotReturned

\* the end of what parse_component has taken as the component: the start of
\* the trailing data when it reports some, else the end of the text
ComponentEnd ==
    IF ~result.ok /\ result.v.msg = "Trailing data: {}"
    THEN Len(input) - Len(result.v.a)
    ELSE Len(input)

\* The caller puts a blank line where a property ended, not behind the end
\* of the component, and parses again.
InsertBlank ==
    /\ pc = "done"
    /\ round = 1
    /\ \E at \in PropertyEnds(input, Len(arg.before)), blank \in BlankLines :
        /\ at <= ComponentEnd
        /\ input' = Slice(input, 0, at) \o blank \o SliceFrom(input, at)
        /\ arg' = [arg EXCEPT !.blank = blank, !.at = at]
    /\ pos' = Len(arg.before)
    /\ stack' = <<>>
    /\ pc' = "consume_component"
    /\ rv' = NotReturned
    /\ result' = NotReturned
    /\ out' = result
    /\ round' = 2
    /\ trace' = <<>>
    /\ UNCHANGED tree1

NextLines ==
    \/ NextParse
    \/ InsertBlank

SpecLines == InitLines /\ [][NextLines]_vars

----------------------------------------------------------------------------
(* consume_char called until it returns None, on a text and then on the    *)
(* text without its CRs.  arg is the text, out the characters returned so  *)
(* far, result the characters returned on the text with its CRs.           *)

MaxCursorLen == 4

\* CR, LF, SPACE, TAB, ':', 'a', U+00E9
CursorChars == {<<CR>>, <<LF>>, <<SP>>, <<TAB>>, <<COLON>>, <<97>>, <<195, 169>>}

CursorInputs == {Concat(cs) : cs \in SeqsUpTo(CursorChars, MaxCursorLen)}

IsNotCR(b) == b # CR

InitCursor ==
    /\ arg \in CursorInputs
    /\ input = arg
    /\ pos = 0
    /\ pc = "consume_char"
    /\ out = <<>>
    /\ result = <<>>
    /\ round = 1
    /\ stack = <<>>
    /\ rv = NotReturned
    /\ tree1 = NewComponent(<<>>)
    /\ trace = <<>>

\* p.consume_char()
ConsumeChar ==
    /\ pc = "consume_char"
    /\ \E c \in {consume_char(input, pos)} :
        /\ pos' = c.pos
        /\ out' = IF c.some THEN Append(out, c.c) ELSE out
        /\ pc' = IF c.some THEN "consume_char" ELSE "end"
    /\ UNCHANGED <<input, stack, rv, result, round, tree1, trace, arg>>

\* The caller takes the CRs out of the text and starts again.
StripCR ==
    /\ pc = "end"
    /\ round = 1
    /\ input' = SelectSeq(input, IsNotCR)
    /\ pos' = 0
    /\ pc' = "consume_char"
    /\ result' = out
    /\ out' = <<>>
    /\ round' = 2
    /\ UNCHANGED <<stack, rv, tree1, trace, arg>>

NextCursor ==
    \/ ConsumeChar
    \/ StripCR

SpecCursor == InitCursor /\ [][NextCursor]_vars

----------------------------------------------------------------------------
(* consume_while(test) from a cursor position, one step per iteration of   *)
(* its loop, and then consume_char called from the same position for as    *)
(* long as it returns a character that passes the test.  arg holds the     *)
(* text, the position and the test; result what consume_while returned and *)
(* where it left the cursor; out the characters consume_char returned.     *)

MaxWhileLen == 4

\* CR, LF, SPACE, ':', 'a', U+00E9
WhileChars == {<<CR>>, <<LF>>, <<SP>>, <<COLON>>, <<97>>, <<195, 169>>}

WhileInputs == {Concat(cs) : cs \in SeqsUpTo(WhileChars, MaxWhileLen)}

\* the start of the text and the position behind its first character
WhileStarts(s) ==
    {p \in 0..Len(s) :
        is_char_boundary(s, p) /\ \A q \in 1..(p - 1) : ~is_char_boundary(s, q)}

\* |x| x == '-' || x.is_alphanumeric() and |x| x != '\r' && x != '\n'
WhileTests == {"name", "value"}

InitWhile ==
    /\ arg \in UNION {[text : {s}, start : WhileStarts(s), kind : WhileTests] :
                        s \in WhileInputs}
    /\ input = arg.text
    /\ pos = arg.start
    /\ stack = <<Locals(FALSE, pos, pos, <<>>)>>
    /\ pc = "consume_while"
    /\ result = NotReturned
    /\ out = <<>>
    /\ round = 1
    /\ rv = NotReturned
    /\ tree1 = NewComponent(<<>>)
    /\ trace = <<>>

\* one iteration of the loop of consume_while
WhileIter ==
    /\ pc = "consume_while"
    /\ ~Top.break
    /\ \E l \in {consume_while_iter(input, pos, Top.sl_start_pos, Top.res, arg.kind)} :
        /\ stack' = <<l>>
        /\ pos' = l.pos
    /\ UNCHANGED <<input, pc, rv, result, round, tree1, trace, arg, out>>

\* the final flush and the return of consume_while; the caller then sets the
\* cursor back to where it was
WhileFlush ==
    /\ pc = "consume_while"
    /\ Top.break
    /\ result' = Ok(consume_while_flush(input, pos, Top.sl_start_pos, Top.res), pos)
    /\ stack' = <<>>
    /\ pos' = arg.start
    /\ round' = 2
    /\ pc' = "consume_char"
    /\ UNCHANGED <<input, rv, tree1, trace, arg, out>>

\* p.consume_char(); the caller keeps the character when it passes the test
\* and otherwise stops in front of it
WhileChar ==
    /\ pc = "consume_char"
    /\ round = 2
    /\ \E c \in {consume_char(input, pos)} :
        IF c.some /\ Test(arg.kind, c.c)
        THEN /\ out' = out \o EncodeChar(c.c)
             /\ pos' = c.pos
             /\ pc' = pc
        ELSE /\ out' = out
             /\ pos' = pos
             /\ pc' = "chars_done"
    /\ UNCHANGED <<input, stack, rv, result, round, tree1, trace, arg>>

NextWhile ==
    \/ WhileIter
    \/ WhileFlush
    \/ WhileChar

SpecWhile == InitWhile /\ [][NextWhile]_vars

----------------------------------------------------------------------------
(* consume_only_char(c) called again and again with any c.  trace holds    *)
(* the last call, its argument and the cursor before it, result what it    *)
(* returned; round is 0 until the first call.                              *)

\* the characters of the texts, as chars
OnlyChars == {CharAt(cs, 0) : cs \in WhileChars}

Called(c, p) == [c |-> c, pos |-> p]

InitOnly ==
    /\ input \in WhileInputs
    /\ pos = 0
    /\ trace = Called(0, 0)
    /\ result = FALSE
    /\ round = 0
    /\ pc = "consume_only_char"
    /\ arg = <<>>
    /\ out = <<>>
    /\ stack = <<>>
    /\ rv = NotReturned
    /\ tree1 = NewComponent(<<>>)

\* p.consume_only_char(c)
ConsumeOnlyChar ==
    /\ pc = "consume_only_char"
    /\ \E c \in OnlyChars :
        /\ \E r \in {consume_only_char(input, pos, c)} :
            /\ result' = r.b
            /\ pos' = r.pos
        /\ trace' = Called(c, pos)
    /\ round' = 1
    /\ UNCHANGED <<input, stack, pc, rv, tree1, arg, out>>

NextOnly == ConsumeOnlyChar

SpecOnly == InitOnly /\ [][NextOnly]_vars

----------------------------------------------------------------------------
(* consume_property on one content line put together from a group, a name, *)
(* parameters, what stands where the ':' belongs, and a value.  arg holds  *)
(* the pieces.                                                             *)

MaxParams == 2

\* no group, "g.", "x-1."
ParamGroups == {NoGroup, SomeGroup(<<103>>), SomeGroup(<<120, 45, 49>>)}

\* "", "T", "TEL", "X-\u{e9}9"
ParamNames == {<<>>, <<84>>, <<84, 69, 76>>, <<88, 45, 195, 169, 57>>}

\* one parameter as written, with its name and value when its quote is closed
Param(text, key, val, closed) == [text |-> text, key |-> key, val |-> val, closed |-> closed]

\* ;WORK   ;P=x   ;P="a:b;c,d"   ;Q=   ;Q="x
Params ==
    {Param(<<59, 87, 79, 82, 75>>, <<87, 79, 82, 75>>, <<>>, TRUE),
     Param(<<59, 80, 61, 120>>, <<80>>, <<120>>, TRUE),
     Param(<<59, 80, 61, 34, 97, 58, 98, 59, 99, 44, 100, 34>>, <<80>>,
           <<97, 58, 98, 59, 99, 44, 100>>, TRUE),
     Param(<<59, 81, 61>>, <<81>>, <<>>, TRUE),
     Param(<<59, 81, 61, 34, 120>>, <<81>>, <<>>, FALSE)}

\* ":", nothing, TAB ":"
Separators == {<<COLON>>, <<>>, <<TAB, COLON>>}

\* "", "v", "a:b"
ParamValues == {<<>>, <<118>>, <<97, 58, 98>>}

\* end of input, "\n"
ParamEols == {<<>>, <<LF>>}

ParamLine(a) ==
    (IF a.group.some THEN a.group.v \o <<DOT>> ELSE <<>>)
    \o a.name \o Concat([i \in 1..Len(a.params) |-> a.params[i].text])
    \o a.sep \o a.value \o a.eol

\* the map after insert(key, val) for each parameter in turn
ParamMap(ps) ==
    [k \in {ps[i].key : i \in 1..Len(ps)} |->
        ps[CHOOSE i \in 1..Len(ps) :
            ps[i].key = k /\ \A j \in (i + 1)..Len(ps) : ps[j].key # k].val]

AllClosed(ps) == \A i \in 1..Len(ps) : ps[i].closed

InitParam ==
    /\ arg \in {a \in [group : ParamGroups, name : ParamNames,
                       params : SeqsUpTo(Params, MaxParams), sep : Separators,
                       value : ParamValues, eol : ParamEols] :
                    a.sep = <<>> => a.value = <<>>}
    /\ input = ParamLine(arg)
    /\ pos = 0
    /\ pc = "consume_property"
    /\ result = NotReturned
    /\ rv = NotReturned
    /\ out = <<>>
    /\ round = 1
    /\ stack = <<>>
    /\ tree1 = NewComponent(<<>>)
    /\ trace = <<>>

\* self.consume_property()
ConsumeProperty ==
    /\ pc = "consume_property"
    /\ \E property \in {consume_property(input, pos)} :
        /\ result' = IF property.ok THEN ROk(property.v) ELSE RErr(property.v)
        /\ pos' = property.pos
    /\ pc' = "property_done"
    /\ UNCHANGED <<input, stack, rv, round, tree1, trace, arg, out>>

NextParam == ConsumeProperty

SpecParam == InitParam /\ [][NextParam]_vars

----------------------------------------------------------------------------
(* Any sequence of the cursor operations of Parser on one text, from       *)
(* pos = 0.  out names the operation called last; consume_component runs   *)
(* step by step as in parse_component, and its result is dropped.          *)

MaxOpsLines == 2

\* "BEGIN:\u{e9}\r\n", "\u{e9}:\u{e9}\n", "END:\u{e9}", "END:a\n",
\* "\n\t\u{e9}", "T;P=\"\u{e9}\r", "g.\u{e9}"
OpsLines ==
    {<<66, 69, 71, 73, 78, 58, 195, 169, 13, 10>>,
     <<195, 169, 58, 195, 169, 10>>,
     <<69, 78, 68, 58, 195, 169>>,
     <<69, 78, 68, 58, 97, 10>>,
     <<10, 9, 195, 169>>,
     <<84, 59, 80, 61, 34, 195, 169, 13>>,
     <<103, 46, 195, 169>>}

OpsInputs == {Concat(ls) : ls \in SeqsUpTo(OpsLines, MaxOpsLines)}

\* '"', '=', ';', U+00E9
OpsChars == {DQUOTE, EQUALS, SEMICOLON, 233}

OpsTests == {"name", "value", "quoted", "unquoted"}

InitOps ==
    /\ input \in OpsInputs
    /\ pos = 0
    /\ pc = "ops"
    /\ out = "new"
    /\ stack = <<>>
    /\ rv = NotReturned
    /\ result = NotReturned
    /\ round = 1
    /\ tree1 = NewComponent(<<>>)
    /\ trace = <<>>
    /\ arg = <<>>

\* p.consume_char()
OpsConsumeChar ==
    /\ pc = "ops"
    /\ pos' = consume_char(input, pos).pos
    /\ out' = "consume_char"
    /\ UNCHANGED <<input, stack, pc, rv, result, round, tree1, trace, arg>>

\* p.consume_only_char(c)
OpsConsumeOnlyChar ==
    /\ pc = "ops"
    /\ \E c \in OpsChars : pos' = consume_only_char(input, pos, c).pos
    /\ out' = "consume_only_char"
    /\ UNCHANGED <<input, stack, pc, rv, result, round, tree1, trace, arg>>

\* p.consume_eol()
OpsConsumeEol ==
    /\ pc = "ops"
    /\ pos' = consume_eol(input, pos).pos
    /\ out' = "consume_eol"
    /\ UNCHANGED <<input, stack, pc, rv, result, round, tree1, trace, arg>>

\* p.consume_while(test)
OpsConsumeWhile ==
    /\ pc = "ops"
    /\ \E kind \in OpsTests : pos' = consume_while(input, pos, kind).pos
    /\ out' = "consume_while"
    /\ UNCHANGED <<input, stack, pc, rv, result, round, tree1, trace, arg>>

\* p.consume_property()
OpsConsumeProperty ==
    /\ pc = "ops"
    /\ pos' = consume_property(input, pos).pos
    /\ out' = "consume_property"
    /\ UNCHANGED <<input, stack, pc, rv, result, round, tree1, trace, arg>>

\* p.consume_component(), up to its loop
OpsConsumeComponent ==
    /\ pc = "ops"
    /\ \E property \in {consume_property(input, pos)} :
        \/ ConsumeComponentFail(property)
        \/ ConsumeComponentNotBegin(pos, property)
        \/ ConsumeComponentBegin(pos, property)

\* consume_component has returned; the caller goes on with the parser
OpsReturned ==
    /\ pc = "returned"
    /\ pc' = "ops"
    /\ out' = "consume_component"
    /\ rv' = NotReturned
    /\ trace' = <<>>
    /\ UNCHANGED <<input, pos, stack, result, round, tree1, arg>>

NextOps ==
    \/ OpsConsumeChar
    \/ OpsConsumeOnlyChar
    \/ OpsConsumeEol
    \/ OpsConsumeWhile
    \/ OpsConsumeProperty
    \/ OpsConsumeComponent
    \/ ConsumeComponent
    \/ Loop
    \/ OpsReturned

SpecOps == InitOps /\ [][NextOps]_vars

----------------------------------------------------------------------------
(* Properties of parse_component and write_component.                      *)

\* C1: for every text parse_component accepts, parsing write_component of the
\* parsed tree succeeds and yields an equal tree.
C1_RoundTrip ==
    (pc = "done" /\ round = 2) => (result.ok /\ result.v = tree1)

\* C2: parse_component returns Ok only with the cursor at the end of the
\* input, right after the END line of the first component and its EOLs; if
\* consume_component succeeds and a byte is left, the result is the error
\* "Trailing data" carrying exactly the unconsumed suffix.
C2_ExactlyOneComponent ==
    pc = "done" =>
        /\ result.ok =>
            /\ pos = Len(input)
            /\ rv.ok /\ result.v = rv.v
            /\ trace # <<>>
            /\ trace[Len(trace)].depth = 1
            /\ trace[Len(trace)].property.name = END
        /\ (rv.ok /\ pos < Len(input)) =>
            result = RErr(TrailingData(SubSeq(input, pos + 1, Len(input))))
        /\ ~rv.ok => result = rv

\* C2 witness: a second component after the first is reported as trailing data
C2_Witness ==
    /\ pc = "done"
    /\ rv.ok
    /\ ~result.ok
    /\ result.v.msg = "Trailing data: {}"
    /\ Len(result.v.a) >= 6
    /\ SubSeq(result.v.a, 1, 6) = <<66, 69, 71, 73, 78, 58>>

\* C3: on every text parse_component terminates, with a Component or a
\* ParserError; on the mismatched nesting of the test it ends with a
\* ParserError.
C3_Terminates ==
    /\ (pc # "done") ~> (pc = "done")
    /\ (input = MismatchedNesting) ~> (pc = "done" /\ ~result.ok)

\* C3 witness: the mismatched nesting of the test ends in a ParserError
C3_Witness ==
    /\ input = MismatchedNesting
    /\ pc = "done"
    /\ ~result.ok
    /\ result.v.msg = "Mismatched tags: BEGIN:{} vs END:{}"

\* the cursor p is right before a BEGIN line whose value is name
BeforeBeginOf(s, p, name) ==
    \E property \in {consume_property(s, p)} :
        property.ok /\ property.v.name = BEGIN /\ property.v.raw_value = name

\* C4: when the loop reads an END whose value differs from the name of the
\* component being built, consume_component returns the error "Mismatched
\* tags" naming both, with the cursor back where that call started, before
\* its BEGIN line, also in a nested call.
C4_MismatchRestoresStart ==
    [][\A property \in {consume_property(input, pos)} :
        (/\ pc = "loop"
         /\ property.ok
         /\ property.v.name = END
         /\ property.v.raw_value # Top.component.name)
        => (/\ rv' = RErr(MismatchedTags(Top.component.name, property.v.raw_value))
            /\ pc' = "returned"
            /\ pos' = Top.start_pos
            /\ BeforeBeginOf(input, pos', Top.component.name))]_vars

\* C4 witness: a mismatch in a nested call, the cursor back at the nested BEGIN
C4_Witness ==
    /\ pc = "returned"
    /\ ~rv.ok
    /\ rv.v.msg = "Mismatched tags: BEGIN:{} vs END:{}"
    /\ pos > 0
    /\ Len(trace) >= 2

RECURSIVE TreeTags(_, _)
\* the BEGIN and END lines of a tree in text order: <<tag, value, depth>>
TreeTags(c, d) ==
    <<<<BEGIN, c.name, d>>>>
    \o Concat([i \in 1..Len(c.subcomponents) |-> TreeTags(c.subcomponents[i], d + 1)])
    \o <<<<END, c.name, d>>>>

IsTag(e) == e.property.name \in {BEGIN, END}

\* the BEGIN and END lines the parser has read, in order
TraceTags ==
    [i \in 1..Len(SelectSeq(trace, IsTag)) |->
        <<SelectSeq(trace, IsTag)[i].property.name,
          SelectSeq(trace, IsTag)[i].property.raw_value,
          SelectSeq(trace, IsTag)[i].depth>>]

RECURSIVE StoresNoTag(_)
\* no BEGIN or END line is stored as a property, at any depth
StoresNoTag(c) ==
    /\ DOMAIN c.props \cap {BEGIN, END} = {}
    /\ \A i \in 1..Len(c.subcomponents) : StoresNoTag(c.subcomponents[i])

\* C5: when consume_component returns Ok, every component of the tree has the
\* value of its BEGIN line and of its matching END line as its name, so a
\* BEGIN left without END at the end of the input never gives Ok.
C5_MatchedNesting ==
    rv.ok => (TraceTags = TreeTags(rv.v, 1) /\ StoresNoTag(rv.v))

\* C5 witness: an accepted text with a nested component
C5_Witness ==
    /\ rv.ok
    /\ Len(rv.v.subcomponents) >= 1
    /\ rv.v.subcomponents[1].name # rv.v.name

\* the property lines read at depth d under the given name, in text order
LinesNamed(d, name) ==
    LET hit(e) == e.depth = d /\ e.property.name = name
        es == SelectSeq(trace, hit)
    IN [i \in 1..Len(es) |-> es[i].property]

\* "T", "N" and a name no text uses
ProbeNames == {<<84>>, <<78>>, <<88>>}

\* C6: after parsing a component with k property lines of one name, get_all
\* of that name is those k properties in text order; get_only is the property
\* when k = 1 and None when k = 0 or k >= 2.
C6_MultiProperty ==
    rv.ok =>
        \A name \in ProbeNames :
            /\ get_all(rv.v, name) = LinesNamed(1, name)
            /\ get_only(rv.v, name) =
                   IF Len(LinesNamed(1, name)) = 1 THEN LinesNamed(1, name) ELSE <<>>

\* C6 witness: two T lines with different values, an N line between them
C6_Witness ==
    /\ rv.ok
    /\ Len(get_all(rv.v, <<84>>)) = 2
    /\ get_all(rv.v, <<84>>)[1].raw_value # get_all(rv.v, <<84>>)[2].raw_value
    /\ get_only(rv.v, <<84>>) = <<>>
    /\ Len(get_only(rv.v, <<78>>)) = 1
    /\ \E i \in 2..(Len(trace) - 1) :
        /\ trace[i].property.name = <<78>>
        /\ trace[i - 1].property.name = <<84>>
        /\ trace[i + 1].property.name = <<84>>

\* the lines i..j of the history that are named tag
Tags(tag, i, j) == {k \in i..j : trace[k].property.name = tag}

\* line j is a BEGIN whose END has not been read when line i is read
OpenAt(j, i) ==
    /\ j < i
    /\ trace[j].property.name = BEGIN
    /\ \A k \in (j + 1)..(i - 1) :
        Cardinality(Tags(END, j + 1, k)) <= Cardinality(Tags(BEGIN, j + 1, k))

\* the BEGIN line of the innermost component open when line i is read, 0 if none
Owner(i) ==
    IF \E j \in 1..(i - 1) : OpenAt(j, i)
    THEN CHOOSE j \in 1..(i - 1) : OpenAt(j, i) /\ \A k \in (j + 1)..(i - 1) : ~OpenAt(k, i)
    ELSE 0

\* the lines owned by the BEGIN line b that are named name, resp. are BEGIN
\* lines, in text order
Owned(b, name) ==
    SelectSeq([i \in 1..Len(trace) |-> i],
              LAMBDA i : trace[i].property.name = name /\ Owner(i) = b)

RECURSIVE Preorder(_)
\* a component and the components below it, each before its subcomponents
Preorder(c) ==
    <<c>> \o Concat([i \in 1..Len(c.subcomponents) |-> Preorder(c.subcomponents[i])])

\* the k-th BEGIN line of the history
BeginAt(k) ==
    CHOOSE b \in Tags(BEGIN, 1, Len(trace)) : Cardinality(Tags(BEGIN, 1, b)) = k

\* the number of the BEGIN line b among the BEGIN lines
BeginNo(b) == Cardinality(Tags(BEGIN, 1, b))

\* the names of the property lines read, and the names probed
StoredNames ==
    (ProbeNames \cup {trace[i].property.name : i \in 1..Len(trace)}) \ {BEGIN, END}

----------------------------------------------------------------------------
(* Properties of consume_property.                                         *)

\* C7: with a fold inserted between two characters of a content line,
\* consume_property returns what it returns for the line without the fold,
\* and the raw_value is the value's pieces joined with nothing in between.
C7_UnfoldTransparent ==
    (pc = "property_done" /\ round = 2) =>
        /\ result = rv
        /\ result.ok => result.v.raw_value = arg.value

\* C7 witness: CRLF TAB inside the value foo@example.com of a line that has a
\* group and a parameter
C7_Witness ==
    /\ pc = "property_done"
    /\ round = 2
    /\ arg.fold = <<CR, LF, TAB>>
    /\ arg.at > Len(LineContent(arg)) - Len(arg.value)
    /\ arg.group.some
    /\ arg.params.text # <<>>
    /\ result.ok
    /\ result.v.raw_value =
           <<102, 111, 111, 64, 101, 120, 97, 109, 112, 108, 101, 46, 99, 111, 109>>

\* C8: for a line g.NAME...:value consume_property returns the group g and
\* the name NAME with the line's parameters; for a line without a group the
\* attempt to read one fails and leaves the cursor where the line starts, and
\* the property has no group.
C8_PropertyGroup ==
    /\ pc = "consume_property_rest" =>
        IF arg.group.some
        THEN out.ok /\ out.v = arg.group.v /\ pos > Len(arg.before)
        ELSE ~out.ok /\ pos = Len(arg.before)
    /\ (pc = "property_done" /\ arg.name # <<>>) =>
        result = ROk(Property(arg.name, arg.params.map, arg.value, arg.group))

\* C8 witness: foo.EMAIL;TYPE=INTERNET:foo@example.com, after another line
C8_Witness ==
    /\ pc = "property_done"
    /\ round = 1
    /\ arg.before # <<>>
    /\ LineContent(arg) =
           <<102, 111, 111, 46, 69, 77, 65, 73, 76>>
           \o <<59, 84, 89, 80, 69, 61, 73, 78, 84, 69, 82, 78, 69, 84, 58>>
           \o <<102, 111, 111, 64, 101, 120, 97, 109, 112, 108, 101, 46, 99, 111, 109>>
    /\ result.ok
    /\ result.v.prop_group = SomeGroup(<<102, 111, 111>>)
    /\ result.v.name = <<69, 77, 65, 73, 76>>
    /\ result.v.params[<<84, 89, 80, 69>>] = <<73, 78, 84, 69, 82, 78, 69, 84>>

----------------------------------------------------------------------------
(* Properties of the escaping and of fold_line.                            *)

\* s contains a backslash followed by 'N'
HasBackslashN(s) ==
    \E i \in 1..(Len(s) - 1) : s[i] = BACKSLASH /\ s[i + 1] = UpperN

\* C9: for every s without a backslash followed by 'N',
\* Property::new(name, s).value_as_string() is s.
C9_EscapeRoundTrip ==
    (pc = "escape_done" /\ ~HasBackslashN(arg)) => result = ROk(arg)

\* the byte offsets of t where CRLF SPACE starts
Joints(t) == {i \in 0..(Len(t) - 3) : Slice(t, i, i + 3) = <<CR, LF, SP>>}

\* the chunks of t, the text between the joints, as <<from, to>> byte
\* offsets of t; the empty text has no chunk
Chunks(t) ==
    IF t = <<>> THEN {}
    ELSE {<<a, CHOOSE e \in Joints(t) \cup {Len(t)} :
                /\ e >= a
                /\ \A f \in Joints(t) \cup {Len(t)} : f >= a => e <= f>> :
            a \in {0} \cup {i + 3 : i \in Joints(t)}}

\* the number of joints of t before offset a
JointsBefore(t, a) == Cardinality({i \in Joints(t) : i < a})

\* C10: fold_line(s) is s cut into chunks joined by CRLF SPACE; every chunk
\* has 1 to 75 bytes and starts and ends at a character boundary of s, the
\* chunks in order give s, and an s of at most 75 bytes is returned as it is.
C10_FoldLine ==
    pc = "fold_done" =>
        /\ Len(out) = Len(arg) + 3 * Cardinality(Joints(out))
        /\ \A ch \in Chunks(out) :
            /\ ch[2] - ch[1] >= 1
            /\ ch[2] - ch[1] <= 75
            /\ Slice(out, ch[1], ch[2]) =
                   Slice(arg, ch[1] - 3 * JointsBefore(out, ch[1]),
                              ch[2] - 3 * JointsBefore(out, ch[1]))
            /\ is_char_boundary(arg, ch[1] - 3 * JointsBefore(out, ch[1]))
            /\ is_char_boundary(arg, ch[2] - 3 * JointsBefore(out, ch[1]))
        /\ Len(arg) <= 75 => out = arg

\* C10 witness: three chunks, the first two cut short of 75 bytes before a
\* character of several bytes
C10_Witness ==
    /\ pc = "fold_done"
    /\ Cardinality(Chunks(out)) = 3
    /\ Cardinality({ch \in Chunks(out) : ch[2] - ch[1] < 75 /\ ch[2] < Len(out)}) = 2

\* C11: for every s without CR and LF, reading fold_line(s) with the
\* parser's cursor up to the end of the logical line gives s, also when a
\* chunk starts with SPACE or TAB.
C11_FoldUnfold ==
    pc = "unfold_done" => (result = ROk(arg) /\ pos = Len(input))

\* C11 witness: a folded line whose second chunk starts with a TAB
C11_Witness ==
    /\ pc = "unfold_done"
    /\ Cardinality(Joints(out)) = 1
    /\ \E i \in Joints(out) : out[i + 4] = TAB
    /\ result = ROk(arg)

----------------------------------------------------------------------------
(* Properties of write_component.                                          *)

\* the byte offsets of t where CRLF starts
LineEnds(t) == {i \in 0..(Len(t) - 2) : t[i + 1] = CR /\ t[i + 2] = LF}

\* the k-th smallest element of a set of numbers
Kth(S, k) == CHOOSE x \in S : Cardinality({y \in S : y < x}) = k - 1

\* the physical lines of t, the bytes before each CRLF, in order
PhysicalLines(t) ==
    [k \in 1..Cardinality(LineEnds(t)) |->
        Slice(t, IF k = 1 THEN 0 ELSE Kth(LineEnds(t), k - 1) + 2, Kth(LineEnds(t), k))]

\* C12: every physical line of write_component's output, the bytes between
\* two consecutive CRLFs, name, parameters, ':' and the leading SPACE of a
\* continuation line included, has at most 75 bytes.
C12_PhysicalLines ==
    pc = "written" =>
        \A k \in 1..Len(PhysicalLines(out)) : Len(PhysicalLines(out)[k]) <= 75

\* C12 witness: the property line L: with a value of 75 bytes, 77 bytes long
C12_Witness ==
    /\ pc = "written"
    /\ \E k \in 1..Len(PhysicalLines(out)) : Len(PhysicalLines(out)[k]) = 77

RECURSIVE LogicalLinesUpTo(_, _)
\* the first k physical lines with every line that starts with a SPACE joined
\* to the line before it, the SPACE dropped
LogicalLinesUpTo(ls, k) ==
    IF k = 0 THEN <<>>
    ELSE Bind(LogicalLinesUpTo(ls, k - 1), LAMBDA m :
        IF ls[k] # <<>> /\ ls[k][1] = SP /\ m # <<>>
        THEN [m EXCEPT ![Len(m)] = @ \o Tail(ls[k])]
        ELSE Append(m, ls[k]))

\* the content lines of t: its physical lines unfolded
LogicalLines(t) ==
    Bind(PhysicalLines(t), LAMBDA ls : LogicalLinesUpTo(ls, Len(ls)))

\* the number of properties c stores
NProps(c) ==
    Cardinality(UNION {{<<n, j>> : j \in 1..Len(get_all(c, n))} : n \in DOMAIN c.props})

RECURSIVE LineCount(_)
RECURSIVE SubStart(_, _)
\* the number of content lines of c: BEGIN, its properties, its subcomponents, END
LineCount(c) == SubStart(c, Len(c.subcomponents) + 1)

\* the index of the first content line of the i-th subcomponent of c
SubStart(c, i) ==
    IF i = 1 THEN 2 + NProps(c)
    ELSE SubStart(c, i - 1) + LineCount(c.subcomponents[i - 1])

\* [group.]NAME{;KEY=VALUE}:raw_value, the parameters in any order
PropLines(name, p) ==
    {(IF p.prop_group.some THEN p.prop_group.v \o <<DOT>> ELSE <<>>)
        \o name
        \o Concat([i \in 1..Len(o) |-> <<SEMICOLON>> \o o[i] \o <<EQUALS>> \o p.params[o[i]]])
        \o <<COLON>> \o p.raw_value :
     o \in IterationOrders(DOMAIN p.params)}

\* the number of properties stored under the first i - 1 names of o
PropsBefore(c, o, i) ==
    Cardinality(UNION {{<<k, j>> : j \in 1..Len(c.props[o[k]])} : k \in 1..(i - 1)})

RECURSIVE IsWriteOf(_, _)
\* ll is BEGIN:name, the property lines of c name by name (the names in some
\* order, the properties of a name in stored order), the lines of the
\* subcomponents in sequence order, END:name
IsWriteOf(ll, c) ==
    /\ Len(ll) = LineCount(c)
    /\ ll[1] = BEGIN \o <<COLON>> \o c.name
    /\ ll[Len(ll)] = END \o <<COLON>> \o c.name
    /\ \E o \in IterationOrders(DOMAIN c.props) :
        \A i \in 1..Len(o) : \A j \in 1..Len(c.props[o[i]]) :
            ll[1 + PropsBefore(c, o, i) + j] \in PropLines(o[i], c.props[o[i]][j])
    /\ \A i \in 1..Len(c.subcomponents) :
        IsWriteOf(SubSeq(ll, SubStart(c, i), SubStart(c, i + 1) - 1), c.subcomponents[i])

----------------------------------------------------------------------------
(* Properties of the property store.                                       *)

\* C14: after any sequence of calls, get_all(name) is the sequence of the
\* multimap in which push appends to the sequence of the name and set
\* replaces it by the one property; get_only(name) is Some(x) exactly when
\* that sequence is [x]; a name never pushed or set has the empty sequence.
C14_Multimap ==
    \A name \in StoreNames :
        /\ get_all(out, name) = arg[name]
        /\ get_only(out, name) = IF Len(arg[name]) = 1 THEN arg[name] ELSE <<>>

\* C14 witness: T:1 and T:2 pushed, then set(T:1)
C14_Witness ==
    /\ round = 3
    /\ trace = Call("set", <<84>>)
    /\ Len(get_all(tree1, <<84>>)) = 2
    /\ Len(get_only(out, <<84>>)) = 1
    /\ get_all(out, <<88>>) = <<>>

\* the other names and the subcomponents are as before the last call
OthersUnchanged ==
    /\ \A name \in StoreNames \ {trace.name} :
        get_all(out, name) = get_all(tree1, name)
    /\ out.subcomponents = tree1.subcomponents
    /\ out.name = tree1.name

\* C15: pop(name) returns None when get_all(name) is empty; otherwise it
\* returns the last property of get_all(name), and get_all(name) is then the
\* sequence before without its last element; the other names and the
\* subcomponents are unchanged.
C15_Pop ==
    trace.op = "pop" =>
        /\ IF get_all(tree1, trace.name) = <<>>
           THEN result = <<>> /\ get_all(out, trace.name) = <<>>
           ELSE /\ result = <<get_all(tree1, trace.name)[Len(get_all(tree1, trace.name))]>>
                /\ get_all(out, trace.name) =
                       SubSeq(get_all(tree1, trace.name), 1,
                              Len(get_all(tree1, trace.name)) - 1)
        /\ OthersUnchanged

\* C15 witness: pop(T) with T:1, T:2 and N:1 stored returns T:2
C15_Witness ==
    /\ trace = Call("pop", <<84>>)
    /\ Len(get_all(tree1, <<84>>)) = 2
    /\ get_all(tree1, <<84>>)[1] # get_all(tree1, <<84>>)[2]
    /\ result = <<get_all(tree1, <<84>>)[2]>>
    /\ get_all(out, <<84>>) = <<get_all(tree1, <<84>>)[1]>>

\* C16: remove(name) returns get_all(name) when it is not empty; afterwards
\* get_all(name) is empty and get_only(name) is None; the other names and
\* the subcomponents are unchanged.
C16_Remove ==
    trace.op = "remove" =>
        /\ get_all(tree1, trace.name) # <<>> => result = <<get_all(tree1, trace.name)>>
        /\ get_all(out, trace.name) = <<>>
        /\ get_only(out, trace.name) = <<>>
        /\ OthersUnchanged

\* C16 witness: remove(T) with two T properties stored returns both
C16_Witness ==
    /\ trace = Call("remove", <<84>>)
    /\ Len(get_all(tree1, <<84>>)) = 2
    /\ result = <<get_all(tree1, <<84>>)>>
    /\ get_all(out, <<84>>) = <<>>

\* C29: after any sequence of push, set, pop and remove, every property
\* stored in the sequence of the key k has the name k.
C29_KeyIsName ==
    \A k \in DOMAIN out.props :
        \A i \in 1..Len(out.props[k]) : out.props[k][i].name = k

\* C29 witness: two properties under T and one under N after three calls
C29_Witness ==
    /\ round = 3
    /\ DOMAIN out.props = {<<84>>, <<78>>}
    /\ Len(out.props[<<84>>]) = 2
    /\ out.props[<<84>>][2].name = <<84>>
    /\ out.props[<<78>>][1].name = <<78>>

\* C30: after any sequence of push, set, pop and remove no name has an empty
\* sequence of properties, so remove(name) returns None exactly when
\* get_all(name) is empty.
C30_NoEmptyEntries ==
    /\ \A k \in DOMAIN out.props : out.props[k] # <<>>
    /\ trace.op = "remove" =>
        (result = <<>> <=> get_all(tree1, trace.name) = <<>>)

\* C30 witness: push(T:1), pop(T), remove(T): remove returns Some of the
\* empty sequence
C30_Witness ==
    /\ round = 3
    /\ trace = Call("remove", <<84>>)
    /\ <<84>> \in DOMAIN tree1.props
    /\ get_all(tree1, <<84>>) = <<>>
    /\ result = << <<>> >>

----------------------------------------------------------------------------
(* Properties of line termination and of the first line of a component.    *)

\* C17: consume_property consumes the end of the line and every empty line
\* (LF or CRLF) that follows it, so the next logical character is no LF; a
\* blank line put where a property ended, between two properties or after
\* the final END line, leaves the result of parse_component as it was; a
\* last line that ends with the input is accepted.
C17_SloppyTermination ==
    /\ pc \in {"consume_component", "loop"} =>
        \A property \in {consume_property(input, pos)} :
            property.ok =>
                \A pk \in {peek(input, property.pos)} :
                    pk.kind = "some" => pk.c # LF
    /\ (pc = "done" /\ round = 2) => result = out
    /\ (pc = "done" /\ round = 1 /\ arg.first = BEGIN \o <<COLON, 97>>
          /\ arg.body \in SeqsUpTo({<< <<84, 58, 49>> >>}, MaxBody)
          /\ arg.final = "none")
        => result.ok

\* C17 witness: a CRLF blank line between the property T:1 and an END line
\* that ends with the input; the component comes back as without it
C17_Witness ==
    /\ pc = "done"
    /\ round = 2
    /\ result.ok
    /\ result = out
    /\ arg.final = "none"
    /\ arg.blank = <<CR, LF>>
    /\ arg.at < Len(input) - Len(arg.blank)
    /\ Len(get_all(result.v, <<84>>)) = 1

\* C19: when the first property consume_component reads is not named BEGIN,
\* the call returns the error "Expected BEGIN tag." and the cursor is where
\* it was before the call.
C19_ExpectedBegin ==
    [][\A property \in {consume_property(input, pos)} :
        (/\ pc = "consume_component"
         /\ property.ok
         /\ property.v.name # BEGIN)
        => (/\ rv' = RErr(ExpectedBegin)
            /\ pc' = "returned"
            /\ pos' = pos)]_vars

\* C19 witness: the line BEGINS:a read at a cursor that is not at offset 0
C19_Witness ==
    /\ pc = "returned"
    /\ rv = RErr(ExpectedBegin)
    /\ arg.first = BEGIN \o <<83, COLON, 97>>
    /\ pos = Len(arg.before)
    /\ pos > 0

----------------------------------------------------------------------------
(* Properties of the cursor.                                               *)

NoCR(str) == \A i \in 1..Len(str) : str[i] # CR

\* C18: the characters that repeated consume_char returns never include CR,
\* and they are the characters returned on the text with every CR taken
\* out; no name, group, parameter or raw_value of a parsed property holds a
\* CR.
C18_CRTransparent ==
    /\ NoCR(out)
    /\ (pc = "end" /\ round = 2) => out = result
    /\ \A property \in {consume_property(input, pos)} :
        property.ok =>
            /\ NoCR(property.v.name)
            /\ NoCR(property.v.raw_value)
            /\ NoCR(property.v.prop_group.v)
            /\ \A k \in DOMAIN property.v.params :
                NoCR(k) /\ NoCR(property.v.params[k])

\* C18 witness: "a\r:a" gives 'a', ':', 'a' with and without its CR, and
\* is the property of name "a" and raw_value "a"
C18_Witness ==
    /\ pc = "end"
    /\ round = 2
    /\ arg = <<97, CR, COLON, 97>>
    /\ out = <<97, COLON, 97>>
    /\ result = out
    /\ \A property \in {consume_property(arg, 0)} :
        property.ok /\ property.v.name = <<97>> /\ property.v.raw_value = <<97>>

\* C27: at every cursor position reached, peek yields no character exactly
\* when eof is true.
C27_EofAgreement ==
    pc \in {"consume_char", "end"} =>
        \A pk \in {peek(input, pos)} : (pk.kind # "some") <=> eof(input, pos)

\* C27 witness: on "a\r" consume_char returns 'a' and then None with the
\* cursor at 1, in front of the CR
C27_Witness ==
    /\ pc = "end"
    /\ round = 1
    /\ input = <<97, CR>>
    /\ out = <<97>>
    /\ pos = 1
    /\ ~eof(input, pos)
    /\ peek(input, pos) = None

\* the first offset from i on that holds no CR, or the end of the text
AfterCRs(s, i) ==
    CHOOSE j \in i..Len(s) :
        /\ j = Len(s) \/ s[j + 1] # CR
        /\ \A k \in i..(j - 1) : s[k + 1] = CR

\* C20: when the character at the inspected offset is LF, peek_at drops it
\* only if the character right after it, CRs skipped, is SPACE or TAB, and
\* then returns the next logical character after that whitespace; in every
\* other case it returns LF with the width offset + 1.
C20_LFRule ==
    pc = "consume_char" =>
        \A at \in 0..(Len(input) - pos - 1) :
            input[pos + at + 1] = LF =>
                \A j \in {AfterCRs(input, pos + at + 1)} :
                    peek_at(input, pos, at) =
                        IF j < Len(input) /\ input[j + 1] \in {SP, TAB}
                        THEN peek_at(input, pos, j + 1 - pos)
                        ELSE Some(LF, at + 1)

\* C20 witness: on LF LF SPACE SPACE consume_char returns None at once
C20_Witness ==
    /\ pc = "end"
    /\ round = 1
    /\ input = <<LF, LF, SP, SP>>
    /\ pos = 0
    /\ out = <<>>

----------------------------------------------------------------------------
(* Properties of consume_while and consume_only_char.                      *)

\* C21: consume_while(test) returns the logical characters that successive
\* consume_char calls return up to the first one that fails the test or the
\* end of the input, folds and CRs left out and multi-byte characters whole,
\* and leaves the cursor so that the next logical character is that failing
\* character, or there is none.
C21_WhileIsConsumeChar ==
    pc = "chars_done" =>
        /\ result.ok
        /\ result.v = out
        /\ peek(input, result.pos) = peek(input, pos)
        /\ \A pk \in {peek(input, result.pos)} :
            pk.kind = "some" => ~Test(arg.kind, pk.c)

\* C21 witness: on LF SPACE U+00E9 ':' the name test returns U+00E9, the
\* fold left out, and stops in front of ':'
C21_Witness ==
    /\ pc = "chars_done"
    /\ input = <<LF, SP, 195, 169, COLON>>
    /\ arg.start = 0
    /\ arg.kind = "name"
    /\ result.v = <<195, 169>>
    /\ out = result.v
    /\ result.pos = 4
    /\ \A pk \in {peek(input, result.pos)} : pk.kind = "some" /\ pk.c = COLON

\* C22: consume_only_char(c) returns true exactly when the next logical
\* character is c, and then the cursor has advanced by the width peek
\* reported, skipped CRs and folds included; when it returns false the
\* cursor is where it was.
C22_ConsumeOnlyChar ==
    round = 1 =>
        \A pk \in {peek(input, trace.pos)} :
            /\ result = (pk.kind = "some" /\ pk.c = trace.c)
            /\ result => pos = trace.pos + pk.offset
            /\ ~result => pos = trace.pos

\* C22 witness: consume_only_char(':') on CR LF SPACE ':' moves the cursor
\* from 0 to 4
C22_Witness ==
    /\ round = 1
    /\ input = <<CR, LF, SP, COLON>>
    /\ trace = Called(COLON, 0)
    /\ result
    /\ pos = 4

----------------------------------------------------------------------------
(* Properties of consume_property on one content line.                     *)

\* C23: a line with a parameter whose double-quoted value is not closed
\* before the end of the logical line makes consume_property fail: the
\* property is never returned without that parameter.
C23_UnclosedQuote ==
    (pc = "property_done" /\ ~AllClosed(arg.params)) => ~result.ok

\* C23 witness: T;P=x;Q="x:v fails at the '=' of Q
C23_Witness ==
    /\ pc = "property_done"
    /\ arg.group = NoGroup
    /\ arg.name = <<84>>
    /\ Len(arg.params) = 2
    /\ arg.params[1].closed
    /\ ~arg.params[2].closed
    /\ arg.sep = <<COLON>>
    /\ arg.value = <<118>>
    /\ result = RErr(ExpectedFound(COLON, EQUALS))

\* C24: a parameter without '=' has the empty value; an unquoted value ends
\* at the first ';' or ':'; a quoted value is stored without its quotes and
\* may hold ':', ';' and ',', and the raw_value starts after the ':' that
\* follows the closing quote.
C24_ParamValues ==
    (pc = "property_done" /\ arg.name # <<>> /\ arg.sep = <<COLON>>
        /\ AllClosed(arg.params))
    => /\ result.ok
       /\ result.v.name = arg.name
       /\ result.v.prop_group = arg.group
       /\ result.v.params = ParamMap(arg.params)
       /\ result.v.raw_value = arg.value

\* C24 witness: TEL;WORK;P="a:b;c,d":a:b
C24_Witness ==
    /\ pc = "property_done"
    /\ result.ok
    /\ arg.name = <<84, 69, 76>>
    /\ Len(arg.params) = 2
    /\ DOMAIN result.v.params = {<<87, 79, 82, 75>>, <<80>>}
    /\ result.v.params[<<87, 79, 82, 75>>] = <<>>
    /\ result.v.params[<<80>>] = <<97, 58, 98, 59, 99, 44, 100>>
    /\ result.v.raw_value = <<97, 58, 98>>

\* the chars of a string
CharsOf(str) == {CharAt(str, i) : i \in {j \in 0..(Len(str) - 1) : is_char_boundary(str, j)}}

\* not empty, and made of letters, digits and hyphens
NameShape(str) ==
    /\ str # <<>>
    /\ \A c \in CharsOf(str) : c = HYPHEN \/ is_alphanumeric(c)

\* C25: a property that consume_property returns has a name that is not
\* empty and is made of letters, digits and hyphens, and so has its group if
\* it has one; a line with no name character where the name belongs fails
\* with "No property name found."; a line whose name and parameters are not
\* followed by ':' fails with "Expected :, found ...".
C25_NameShape ==
    pc = "property_done" =>
        /\ result.ok =>
            /\ NameShape(result.v.name)
            /\ result.v.prop_group.some => NameShape(result.v.prop_group.v)
        /\ arg.name = <<>> => result = RErr(NoPropertyName)
        /\ (arg.name # <<>> /\ arg.sep # <<COLON>> /\ AllClosed(arg.params))
            => /\ ~result.ok
               /\ result.v.msg \in {"Expected {}, found EOL", "Expected {}, found {}"}
               /\ result.v.a = <<COLON>>

\* C25 witness: x-1.X-\u{e9}9;WORK TAB :v fails with "Expected :, found TAB"
C25_Witness ==
    /\ pc = "property_done"
    /\ arg.group = SomeGroup(<<120, 45, 49>>)
    /\ arg.name = <<88, 45, 195, 169, 57>>
    /\ Len(arg.params) = 1
    /\ arg.sep = <<TAB, COLON>>
    /\ arg.params[1].key = <<87, 79, 82, 75>>
    /\ result = RErr(ExpectedFound(COLON, TAB))

----------------------------------------------------------------------------
(* Safety of the cursor.                                                   *)

\* the byte offsets of s at which a slice may start or end
Boundaries(s) == {p \in 0..Len(s) : is_char_boundary(s, p)}

\* every byte of str is part of a whole character
WholeChars(str) ==
    \A i \in 1..Len(str) :
        /\ str[i] \in 128..191 => i > 1 /\ str[i - 1] >= 128
        /\ str[i] >= 192 =>
            /\ i + len_utf8(CharAt(<<str[i], 128, 128, 128>>, 0)) - 1 <= Len(str)
            /\ is_char_boundary(str, i + len_utf8(CharAt(<<str[i], 128, 128, 128>>, 0)) - 1)

\* C28: from pos = 0, after any sequence of cursor operations, rewinds
\* included, 0 <= pos <= len(input) and pos is on a character boundary; no
\* peek_at takes a slice out of range, and consume_while cuts its slices
\* between characters.
C28_CursorSafety ==
    /\ pos \in Boundaries(input)
    /\ \A i \in 1..Len(stack) : stack[i].start_pos \in Boundaries(input)
    /\ \A pk \in {peek(input, pos)} :
        /\ pk.kind # "panic"
        /\ pk.kind = "some" => pos + pk.offset \in Boundaries(input)
    /\ \A kind \in OpsTests :
        \A r \in {consume_while(input, pos, kind)} :
            r.pos \in Boundaries(input) /\ WholeChars(r.v)

\* C28 witness: on "\u{e9}:\u{e9}\n" "T;P=\"\u{e9}\r" the second
\* consume_property has read past the quoted multi-byte character, has found
\* no closing quote and has set the cursor back in front of the '='
C28_Witness ==
    /\ pc = "ops"
    /\ out = "consume_property"
    /\ input = <<195, 169, 58, 195, 169, 10, 84, 59, 80, 61, 34, 195, 169, 13>>
    /\ pos = 9
    /\ ~consume_property(input, 6).ok

====
